---- MODULE Spec2Model ----
(***************************************************************************)
(* Model of the FURIA bot's progression accounting (UserModel.add_xp,      *)
(* UserService.update_user_xp) and social-content ingestion (NewsService). *)
(* Every coroutine is a process; one action is one stretch of code between *)
(* two awaits on the document store or on the external source.             *)
(* Timestamps (last_active, updated_at, last_interaction) are written by   *)
(* the code but read by no modelled operation, and are left out.           *)
(***************************************************************************)
EXTENDS Integers, Naturals, Sequences, FiniteSets, TLC

\* ------------------------------------------------------------------ bounds
NumProcs == 2       \* coroutines that may be in flight at once
MaxCalls == 2       \* calls started in one behaviour
MaxProfiles == 1    \* documents UserService.create_user may insert
MaxBatch == 2       \* items in one response of the external source
MaxStored == 3      \* posts in a collection the read path queries
MaxResponses == 2   \* responses record_survey_response calls may store
MaxAnswers == 5     \* stored responses the aggregator is applied to

Procs == 1..NumProcs
TelegramIds == {1}
UserIds == {1}
Amounts == {0, 60, 250}         \* non-negative experience grants
PostIds == {1, 2}               \* external post identifiers
Texts == {"a", "b"}             \* text bodies a post may carry
PlayerIds == {"fallen", "guest"}

None == {}
Some(x) == {x}
TheOne(s) == CHOOSE x \in s : TRUE

\* ------------------------------------------------------- progression maths
\* a/b >= c/d for naturals a, c and positive b, d, by continued fractions
\* (the products a*d and c*b would leave the 32-bit range).
RECURSIVE FracGeq(_, _, _, _)
FracGeq(a, b, c, d) ==
    LET qa == a \div b
        qc == c \div d
        ra == a % b
        rc == c % d
    IN  IF qa # qc THEN qa > qc
        ELSE IF rc = 0 THEN TRUE
        ELSE IF ra = 0 THEN FALSE
        ELSE FracGeq(d, rc, b, ra)

\* k <= (xp / 100) ** 0.8, i.e. k^5 * 100^4 <= xp^4, compared as
\* xp^2 / (10^4 k^2) >= (10^4 k^3) / xp^2.
PowGeq(xp, k) ==
    \/ k = 0
    \/ /\ xp > 0
       /\ FracGeq(xp * xp, 10000 * k * k, 10000 * k * k * k, xp * xp)

RECURSIVE IntPow08(_, _)
IntPow08(xp, k) == IF PowGeq(xp, k + 1) THEN IntPow08(xp, k + 1) ELSE k

\* new_level = 1 + int((new_xp / 100) ** 0.8)
ClosedFormLevel(xp) == 1 + IntPow08(xp, 0)

\* int(xp_to_next * 1.5)
NextThresholdShrinking(t) == (9 * t) \div 10
NextThreshold(t) == (3 * t) \div 2

\* while new_xp >= xp_to_next: new_xp -= xp_to_next; new_level += 1; ...
LevelUpLoopClosedForm(xp, level, next) ==
    [xp |-> xp, level |-> ClosedFormLevel(xp), xp_to_next_level |-> next]
RECURSIVE LevelUpLoop(_, _, _)
LevelUpLoop(xp, level, next) ==
    IF xp >= next
    THEN LevelUpLoop(xp - next, level + 1, NextThreshold(next))
    ELSE [xp |-> xp, level |-> level, xp_to_next_level |-> next]

\* ------------------------------------------------------------------- state
VARIABLES
    users,       \* UserModel's collection: set of documents, unique telegram_id
    svc_users,   \* UserService's collection: sequence of documents
    pc,          \* pc[p]: where coroutine p stands
    call,        \* call[p]: the operation p runs and its arguments
    rd,          \* rd[p]: the document p read (the local `user`), or None
    res,         \* res[p]: what p's call gave its caller
    ncalls,      \* calls started so far
    applied,     \* history: sum of the amounts add_xp calls wrote
    svcApplied,  \* history: sum of the amounts update_user_xp calls wrote
    returned,    \* history: add_xp calls that returned their result
    svcReturned, \* history: update_user_xp calls that returned a profile
    team_news,   \* NewsService.team_news_col: sequence of documents, no unique index
    player_news, \* NewsService.player_news_col: sequence of documents, no unique index
    team_instagram_userid,  \* NewsService's cached Instagram user id, or None
    todo,        \* todo[p]: the items of p's response not yet stored, current one first
    logline,     \* logline[p]: the record p's call logged last
    last,        \* history: target and response of the fetch started last, if no
                 \* store error has cut it short
    rerun,       \* history: rerun[p] iff p's fetch got the target and response of the
                 \* fetch before it
    resolved,    \* history: the platforms whose lookup of the team's identifier
                 \* has succeeded on this NewsService instance
    surveys,     \* SurveyService.collection: sequence of survey documents
    survey_responses,  \* db.survey_responses: sequence of response documents
    players,     \* PlayerService.players: what the constructor loaded
    cfg,         \* the configuration source PlayerService was constructed over
    screen       \* the menu message the chat shows last: its text, items and buttons

xpvars == <<users, svc_users, pc, call, rd, res, ncalls, applied, svcApplied, returned,
           svcReturned>>
surveyvars == <<surveys, survey_responses>>
regvars == <<players, cfg, screen>>
newsstate == <<team_news, player_news, team_instagram_userid, todo, logline, last, rerun,
              resolved>>
newsvars == <<newsstate, surveyvars, regvars>>
xpstate == <<users, svc_users, applied, svcApplied, returned, svcReturned>>
xponly == <<xpstate, rd, surveyvars, regvars>>
vars == <<xpvars, newsvars>>

NoCall == [op |-> "none"]
NoRes == [outcome |-> "pending"]
NoLog == [level |-> "none"]
NoLast == <<>>

\* UserModel.create_user's document
NewUserDoc(tid) ==
    [telegram_id |-> tid, xp |-> 0, level |-> 1,
     engagement_metrics |-> [mission_completions |-> 0, survey_completions |-> 0,
                             social_shares |-> 0, bot_interactions |-> 1]]

\* UserService.create_user's document
NewProfileDoc(uid) ==
    [user_id |-> uid, level |-> 1, xp |-> 0, xp_to_next_level |-> 100,
     engagement_metrics |-> [bot_interactions |-> 0, mission_completions |-> 0,
                             survey_completions |-> 0, social_shares |-> 0]]

\* collection.find_one({"telegram_id": tid})
GetUser(tid) == {d \in users : d.telegram_id = tid}

\* collection.find_one({"user_id": uid}): the first match, or None
FirstMatch(uid) ==
    LET hits == {i \in 1..Len(svc_users) : svc_users[i].user_id = uid}
    IN  IF hits = {} THEN 0 ELSE CHOOSE i \in hits : \A j \in hits : i <= j
GetUserProfile(uid) ==
    IF FirstMatch(uid) = 0 THEN None ELSE Some(svc_users[FirstMatch(uid)])

\* collection.update_one({"telegram_id": tid}, {"$set": fields})
SetUser(tid, xp, level) ==
    {IF d.telegram_id = tid THEN [d EXCEPT !.xp = xp, !.level = level] ELSE d : d \in users}

\* {"$inc": {"engagement_metrics.bot_interactions": 1}}
IncBotInteractionsTwice(d) ==
    [d EXCEPT !.engagement_metrics.bot_interactions = @ + 2]
IncBotInteractions(d) ==
    [d EXCEPT !.engagement_metrics.bot_interactions = @ + 1]

\* add_xp's update_data: new_xp = current_xp + xp_amount, new_level from new_xp
AddXpUpdateLevelOfGrant(user, xp_amount) ==
    [xp |-> user.xp + xp_amount, level |-> ClosedFormLevel(xp_amount)]
AddXpUpdateSubtract(user, xp_amount) ==
    [xp |-> user.xp - xp_amount, level |-> ClosedFormLevel(user.xp - xp_amount)]
AddXpUpdateStaleLevel(user, xp_amount) ==
    [xp |-> user.xp + xp_amount, level |-> ClosedFormLevel(user.xp)]
AddXpUpdate(user, xp_amount) ==
    [xp |-> user.xp + xp_amount, level |-> ClosedFormLevel(user.xp + xp_amount)]

\* add_xp's return value
AddXpResultGeq(user, new_xp, new_level) ==
    [outcome |-> "returned", current_xp |-> new_xp, new_level |-> new_level,
     level_up |-> new_level >= user.level,
     previous_level |-> IF new_level >= user.level THEN Some(user.level) ELSE None]
AddXpResult(user, new_xp, new_level) ==
    [outcome |-> "returned", current_xp |-> new_xp, new_level |-> new_level,
     level_up |-> new_level > user.level,
     previous_level |-> IF new_level > user.level THEN Some(user.level) ELSE None]

\* ------------------------------------------------------ content registry
\* the content of config/players.json
Registry == [fallen |-> [twitter |-> "FalleNCS", instagram_id |-> "ig_fallen"],
             kscerato |-> [twitter |-> "kscerato"]]

\* what PlayerService.__init__ may find at the configuration path
ConfigSources == {"ok", "missing", "unreadable", "malformed", "wrong_shape"}

\* a registry object: the dict json.load gave, or a JSON value of another shape
EmptyDict == [shape |-> "dict", entries |-> <<>>]

\* try: self.players = json.load(f)  except Exception: self.players = {}
\* (a file that parses to a JSON array is loaded as it is)
LoadPlayersNoFallback(source) ==
    IF source = "ok" THEN [shape |-> "dict", entries |-> Registry]
    ELSE [shape |-> "unset", entries |-> <<>>]
LoadPlayers(source) ==
    IF source = "ok" THEN [shape |-> "dict", entries |-> Registry]
    ELSE IF source = "wrong_shape" THEN [shape |-> "list", entries |-> <<>>]
    ELSE EmptyDict

\* self.players.get(player_id, {}).get(key): the value, None, or AttributeError
\* when self.players is no dict
Lookup(registry, player_id, key) ==
    IF registry.shape # "dict" THEN [outcome |-> "raised", error |-> "AttributeError"]
    ELSE LET entry == IF player_id \in DOMAIN registry.entries
                      THEN registry.entries[player_id] ELSE <<>>
         IN  [outcome |-> "returned",
              value |-> IF key \in DOMAIN entry THEN Some(entry[key]) ELSE None]

\* PlayerService.get_twitter_handle as fetch_player_tweets uses it
GetTwitterHandle(player_id) ==
    LET r == Lookup(players, player_id, "twitter")
    IN  IF r.outcome = "returned" THEN r.value ELSE None

\* before /start the chat shows no menu message
NoScreen == [text |-> "none", items |-> <<>>, buttons |-> <<>>]

InitCalls ==
    /\ screen = NoScreen
    /\ pc = [p \in Procs |-> "idle"]
    /\ call = [p \in Procs |-> NoCall]
    /\ rd = [p \in Procs |-> None]
    /\ res = [p \in Procs |-> NoRes]
    /\ ncalls = 0

InitXp ==
    /\ users = {}
    /\ svc_users = <<>>
    /\ applied = 0
    /\ svcApplied = 0
    /\ returned = 0
    /\ svcReturned = 0

InitFetch ==
    /\ team_instagram_userid = None
    /\ todo = [p \in Procs |-> <<>>]
    /\ logline = [p \in Procs |-> NoLog]
    /\ last = NoLast
    /\ rerun = [p \in Procs |-> FALSE]
    /\ resolved = {}

InitPosts ==
    /\ team_news = <<>>
    /\ player_news = <<>>

InitSurveys ==
    /\ surveys = <<>>
    /\ survey_responses = <<>>

\* the registry loaded from a readable configuration file
InitRegistry ==
    /\ cfg = "ok"
    /\ players = LoadPlayers(cfg)

Init == InitCalls /\ InitXp /\ InitFetch /\ InitPosts /\ InitSurveys /\ InitRegistry

\* ------------------------------------------------------ creation of records
\* UserModel.create_user: insert_one under the unique index on telegram_id
CreateUser(tid) ==
    /\ GetUser(tid) = None
    /\ users' = users \cup {NewUserDoc(tid)}
    /\ UNCHANGED newsvars
    /\ UNCHANGED <<svc_users, pc, call, rd, res, ncalls, applied, svcApplied, returned, svcReturned>>

\* UserService.create_user: insert_one, no uniqueness check
CreateProfile(uid) ==
    /\ Len(svc_users) < MaxProfiles
    /\ svc_users' = Append(svc_users, NewProfileDoc(uid))
    /\ UNCHANGED newsvars
    /\ UNCHANGED <<users, pc, call, rd, res, ncalls, applied, svcApplied, returned, svcReturned>>

\* ------------------------------------------------------- UserModel.add_xp
StartAddXp(p, tid, amt) ==
    /\ pc[p] = "idle"
    /\ ncalls < MaxCalls
    /\ ncalls' = ncalls + 1
    /\ pc' = [pc EXCEPT ![p] = "ax_get"]
    /\ call' = [call EXCEPT ![p] = [op |-> "add_xp", id |-> tid, amount |-> amt]]
    /\ UNCHANGED newsvars
    /\ UNCHANGED <<users, svc_users, rd, res, applied, svcApplied, returned, svcReturned>>

\* user = await self.get_user(telegram_id); if not user: raise ValueError
AddXpGet(p) ==
    /\ pc[p] = "ax_get"
    /\ LET user == GetUser(call[p].id)
       IN  IF user = None
           THEN /\ pc' = [pc EXCEPT ![p] = "done"]
                /\ res' = [res EXCEPT ![p] = [outcome |-> "raised", error |-> "ValueError"]]
                /\ rd' = rd
           ELSE /\ pc' = [pc EXCEPT ![p] = "ax_set"]
                /\ rd' = [rd EXCEPT ![p] = user]
                /\ res' = res
    /\ UNCHANGED newsvars
    /\ UNCHANGED <<users, svc_users, call, ncalls, applied, svcApplied, returned, svcReturned>>

\* new_xp, new_level computed from the document read; await self.update_user(...)
AddXpSet(p) ==
    /\ pc[p] = "ax_set"
    /\ LET update_data == AddXpUpdate(TheOne(rd[p]), call[p].amount)
       IN  users' = SetUser(call[p].id, update_data.xp, update_data.level)
    /\ applied' = applied + call[p].amount
    /\ pc' = [pc EXCEPT ![p] = "ax_inc"]
    /\ UNCHANGED newsvars
    /\ UNCHANGED <<svc_users, call, rd, res, ncalls, svcApplied, returned, svcReturned>>

\* await self.collection.update_one(..., {"$inc": ...}); return {...}
AddXpInc(p) ==
    /\ pc[p] = "ax_inc"
    /\ users' = {IF d.telegram_id = call[p].id THEN IncBotInteractions(d) ELSE d : d \in users}
    /\ LET user == TheOne(rd[p])
           update_data == AddXpUpdate(user, call[p].amount)
       IN  res' = [res EXCEPT ![p] = AddXpResult(user, update_data.xp, update_data.level)]
    /\ returned' = returned + 1
    /\ pc' = [pc EXCEPT ![p] = "done"]
    /\ UNCHANGED newsvars
    /\ UNCHANGED <<svc_users, call, rd, ncalls, applied, svcApplied, svcReturned>>

\* ---------------------------------------------- UserService.update_user_xp
StartUpdateUserXp(p, uid, amt) ==
    /\ pc[p] = "idle"
    /\ ncalls < MaxCalls
    /\ ncalls' = ncalls + 1
    /\ pc' = [pc EXCEPT ![p] = "ux_get"]
    /\ call' = [call EXCEPT ![p] = [op |-> "update_user_xp", id |-> uid, amount |-> amt]]
    /\ UNCHANGED newsvars
    /\ UNCHANGED <<users, svc_users, rd, res, applied, svcApplied, returned, svcReturned>>

\* user = await self.get_user_profile(user_id); if not user: return None
UpdateUserXpGet(p) ==
    /\ pc[p] = "ux_get"
    /\ LET user == GetUserProfile(call[p].id)
       IN  IF user = None
           THEN /\ pc' = [pc EXCEPT ![p] = "done"]
                /\ res' = [res EXCEPT ![p] = [outcome |-> "returned", value |-> None]]
                /\ rd' = rd
           ELSE /\ pc' = [pc EXCEPT ![p] = "ux_set"]
                /\ rd' = [rd EXCEPT ![p] = user]
                /\ res' = res
    /\ UNCHANGED newsvars
    /\ UNCHANGED <<users, svc_users, call, ncalls, applied, svcApplied, returned, svcReturned>>

\* the level-up loop, then await self.collection.update_one(..., {"$set": ...})
UpdateUserXpSet(p) ==
    /\ pc[p] = "ux_set"
    /\ LET user == TheOne(rd[p])
           new == LevelUpLoop(user.xp + call[p].amount, user.level, user.xp_to_next_level)
           i == FirstMatch(call[p].id)
       IN  svc_users' = IF i = 0 THEN svc_users
                        ELSE [svc_users EXCEPT ![i] =
                                [@ EXCEPT !.xp = new.xp, !.level = new.level,
                                          !.xp_to_next_level = new.xp_to_next_level]]
    /\ svcApplied' = svcApplied + call[p].amount
    /\ pc' = [pc EXCEPT ![p] = "ux_ret"]
    /\ UNCHANGED newsvars
    /\ UNCHANGED <<users, call, rd, res, ncalls, applied, returned, svcReturned>>

\* return await self.get_user_profile(user_id)
UpdateUserXpReturn(p) ==
    /\ pc[p] = "ux_ret"
    /\ res' = [res EXCEPT ![p] = [outcome |-> "returned", value |-> GetUserProfile(call[p].id)]]
    /\ svcReturned' = svcReturned + 1
    /\ pc' = [pc EXCEPT ![p] = "done"]
    /\ UNCHANGED newsvars
    /\ UNCHANGED <<users, svc_users, call, rd, ncalls, applied, svcApplied, returned>>

\* a store operation raises; neither grant operation catches it
XpStoreError(p) ==
    /\ pc[p] \in {"ax_get", "ax_set", "ax_inc", "ux_get", "ux_set", "ux_ret"}
    /\ res' = [res EXCEPT ![p] = [outcome |-> "raised", error |-> "StoreError"]]
    /\ pc' = [pc EXCEPT ![p] = "done"]
    /\ UNCHANGED newsvars
    /\ UNCHANGED <<users, svc_users, call, rd, ncalls, applied, svcApplied, returned, svcReturned>>

\* the caller takes the result; the coroutine's frame is gone
XpFinish(p) ==
    /\ pc[p] = "done"
    /\ call[p].op \in {"add_xp", "update_user_xp"}
    /\ pc' = [pc EXCEPT ![p] = "idle"]
    /\ call' = [call EXCEPT ![p] = NoCall]
    /\ rd' = [rd EXCEPT ![p] = None]
    /\ res' = [res EXCEPT ![p] = NoRes]
    /\ UNCHANGED newsvars
    /\ UNCHANGED <<users, svc_users, ncalls, applied, svcApplied, returned, svcReturned>>

XpStep(p) ==
    \/ AddXpGet(p)
    \/ AddXpSet(p)
    \/ AddXpInc(p)
    \/ UpdateUserXpGet(p)
    \/ UpdateUserXpSet(p)
    \/ UpdateUserXpReturn(p)
    \/ XpStoreError(p)
    \/ XpFinish(p)

XpStart(p) ==
    \/ \E tid \in TelegramIds, amt \in Amounts : StartAddXp(p, tid, amt)
    \/ \E uid \in UserIds, amt \in Amounts : StartUpdateUserXp(p, uid, amt)

XpCreate ==
    \/ \E tid \in TelegramIds : CreateUser(tid)
    \/ \E uid \in UserIds : CreateProfile(uid)

AllIdle == \A p \in Procs : pc[p] = "idle"

\* grants processed concurrently: coroutines interleave at every await
XpNext == XpCreate \/ \E p \in Procs : XpStart(p) \/ XpStep(p)
SpecXp == Init /\ [][XpNext]_vars

\* grants processed one after the other: a call starts when none is in flight
XpSeqNext == XpCreate \/ \E p \in Procs : (AllIdle /\ XpStart(p)) \/ XpStep(p)
SpecXpSeq == Init /\ [][XpSeqNext]_vars

\* ------------------------------------------- UserModel.get_or_create_user
\* what no step of get_or_create_user touches
gocframe == <<svc_users, applied, svcApplied, returned, svcReturned, newsvars>>

\* insert_one under the unique index on telegram_id: the collection after the
\* insert, or no collection (DuplicateKeyError) when the key is taken
InsertUser(tid) == IF GetUser(tid) = None THEN Some(users \cup {NewUserDoc(tid)}) ELSE None

StartGetOrCreateUser(p, tid) ==
    /\ pc[p] = "idle"
    /\ ncalls < MaxCalls
    /\ ncalls' = ncalls + 1
    /\ pc' = [pc EXCEPT ![p] = "gc_get"]
    /\ call' = [call EXCEPT ![p] = [op |-> "get_or_create_user", id |-> tid]]
    /\ UNCHANGED <<gocframe, users, rd, res>>

\* user = await self.get_user(telegram_id); if not user: ... else: return user
GocGet(p) ==
    /\ pc[p] = "gc_get"
    /\ LET user == GetUser(call[p].id)
       IN  IF user = None
           THEN pc' = [pc EXCEPT ![p] = "gc_insert"] /\ res' = res
           ELSE /\ pc' = [pc EXCEPT ![p] = "done"]
                /\ res' = [res EXCEPT ![p] = [outcome |-> "returned", value |-> user]]
    /\ UNCHANGED <<gocframe, users, call, rd, ncalls>>

\* await self.create_user(telegram_id, username): insert_one, and on any
\* exception logger.error(...); raise
GocInsert(p) ==
    /\ pc[p] = "gc_insert"
    /\ LET inserted == InsertUser(call[p].id)
       IN  IF inserted = None
           THEN /\ users' = users
                /\ pc' = [pc EXCEPT ![p] = "done"]
                /\ res' = [res EXCEPT ![p] =
                             [outcome |-> "raised", error |-> "DuplicateKeyError"]]
           ELSE /\ users' = TheOne(inserted)
                /\ pc' = [pc EXCEPT ![p] = "gc_reget"]
                /\ res' = res
    /\ UNCHANGED <<gocframe, call, rd, ncalls>>

\* user = await self.get_user(telegram_id); return user
GocReget(p) ==
    /\ pc[p] = "gc_reget"
    /\ res' = [res EXCEPT ![p] = [outcome |-> "returned", value |-> GetUser(call[p].id)]]
    /\ pc' = [pc EXCEPT ![p] = "done"]
    /\ UNCHANGED <<gocframe, users, call, rd, ncalls>>

\* find_one or insert_one raises a store error: logged and re-raised
GocStoreError(p) ==
    /\ pc[p] \in {"gc_get", "gc_insert", "gc_reget"}
    /\ res' = [res EXCEPT ![p] = [outcome |-> "raised", error |-> "StoreError"]]
    /\ pc' = [pc EXCEPT ![p] = "done"]
    /\ UNCHANGED <<gocframe, users, call, rd, ncalls>>

\* the caller takes the result
GocFinish(p) ==
    /\ pc[p] = "done"
    /\ call[p].op = "get_or_create_user"
    /\ pc' = [pc EXCEPT ![p] = "idle"]
    /\ call' = [call EXCEPT ![p] = NoCall]
    /\ res' = [res EXCEPT ![p] = NoRes]
    /\ UNCHANGED <<gocframe, users, rd, ncalls>>

\* the telegram ids of the users sending /start
StartIds == {1, 2}

\* concurrent /start commands: the calls interleave at every await
GocNext ==
    \E p \in Procs :
        \/ \E tid \in StartIds : StartGetOrCreateUser(p, tid)
        \/ GocGet(p)
        \/ GocInsert(p)
        \/ GocReget(p)
        \/ GocStoreError(p)
        \/ GocFinish(p)
SpecGetOrCreate == Init /\ [][GocNext]_vars

\* the two policies given the same grants: one grant of each kind, one after
\* the other, of an amount that is the whole total a fresh record absorbs
PolicyAmounts == {0, 100, 240, 250, 400}
PolicyStart(p) ==
    \/ \E tid \in TelegramIds, amt \in PolicyAmounts : StartAddXp(p, tid, amt)
    \/ \E uid \in UserIds, amt \in PolicyAmounts : StartUpdateUserXp(p, uid, amt)
PolicyNext == XpCreate \/ \E p \in Procs : (AllIdle /\ PolicyStart(p)) \/ XpStep(p)
SpecPolicy == Init /\ [][PolicyNext]_vars

\* ------------------------------------------------------ external source
Malformed == [malformed |-> TRUE]    \* an item without "id" or a parsable time
\* id: the external post id; ts: its created_at / timestamp; text: its text
Items == {[id |-> 1, ts |-> 1, text |-> "a"], [id |-> 1, ts |-> 2, text |-> "b"],
          [id |-> 2, ts |-> 1, text |-> "a"], Malformed}
IsMalformed(item) == "malformed" \in DOMAIN item
Batches == UNION {[1..n -> Items] : n \in 0..MaxBatch}

\* --------------------------------------------------------- NewsService
FetchOps == {"fetch_team_tweets", "fetch_team_instagram", "fetch_player_tweets"}

\* the document one item is normalised into
Doc(c, item) ==
    IF c.op = "fetch_player_tweets"
    THEN [player_id |-> c.id, source |-> "twitter", post_id |-> item.id,
          timestamp |-> item.ts, text |-> item.text]
    ELSE [source |-> IF c.op = "fetch_team_tweets" THEN "twitter" ELSE "instagram",
          post_id |-> item.id, timestamp |-> item.ts, text |-> item.text]

\* does stored document d match the filter update_one is given for doc
NeverMatches(c, d, doc) == FALSE
Matches(c, d, doc) ==
    IF c.op = "fetch_player_tweets"
    THEN d.player_id = doc.player_id /\ d.post_id = doc.post_id
    ELSE d.source = doc.source /\ d.post_id = doc.post_id

Hit(c, col, doc) == \E i \in 1..Len(col) : Matches(c, col[i], doc)

\* {"$setOnInsert": doc} on a collection that holds a match: nothing is written
SetOnMatch(c, col, doc) ==
    LET i == CHOOSE j \in 1..Len(col) : Matches(c, col[j], doc) /\
                                         \A k \in 1..(j - 1) : ~Matches(c, col[k], doc)
    IN  [col EXCEPT ![i] = doc]
SetOnInsertOnMatch(c, col, doc) == col

Collection(c) == IF c.op = "fetch_player_tweets" THEN player_news ELSE team_news

\* what the caller of a fetch gets once the call is over
ReturnedNone == [outcome |-> "returned", value |-> None]

\* except Exception as e: self.logger.error(...)
Reraised(e) == [outcome |-> "raised", error |-> e]
Caught(e) == ReturnedNone

\* the call ends normally after its loop, or in its except clause with error e
EndFetch(p, e) ==
    /\ pc' = [pc EXCEPT ![p] = "done"]
    /\ res' = [res EXCEPT ![p] = IF e = "" THEN ReturnedNone ELSE Caught(e)]
    /\ logline' = [logline EXCEPT ![p] =
                     IF e = "" THEN [level |-> "info"] ELSE [level |-> "error", error |-> e]]

\* the loop reaches the items `rest`: it builds the document of the first one,
\* which raises on a malformed item, and awaits its update_one
Continue(p, rest) ==
    /\ todo' = [todo EXCEPT ![p] = rest]
    /\ IF rest # <<>> /\ ~IsMalformed(Head(rest))
       THEN /\ pc' = [pc EXCEPT ![p] = "nf_find"]
            /\ UNCHANGED <<res, logline>>
       ELSE EndFetch(p, IF rest = <<>> THEN "" ELSE "KeyError")

\* the platform a team fetch resolves the team's identifier on
Platform == [fetch_team_tweets |-> "twitter", fetch_team_instagram |-> "instagram"]

\* does the call issue the identifier lookup: _get_twitter_user_id on every tweets
\* fetch that has a handle, /me only while team_instagram_userid is not set
LookupIssued(op, unconfigured, cached) ==
    IF op = "fetch_team_instagram" THEN ~cached ELSE ~unconfigured

\* a fetch runs without an await from its first line to its first update_one:
\* the handle, the identifier lookup and the request are blocking calls.
\* net is what the source does, batch the items it answers with.
StartFetch(p, op, id, net, batch) ==
    /\ pc[p] = "idle"
    /\ ncalls < MaxCalls
    /\ ncalls' = ncalls + 1
    /\ LET unconfigured == op = "fetch_player_tweets" /\ GetTwitterHandle(id) = None
           cached == op = "fetch_team_instagram" /\ team_instagram_userid # None
           lookup == LookupIssued(op, unconfigured, cached)
           failure == IF unconfigured THEN "ValueError: handle not configured"
                      ELSE IF net = "lookup_fails" /\ ~cached THEN "HTTPError: lookup"
                      ELSE IF net = "request_fails" THEN "HTTPError: request"
                      ELSE ""
       IN  /\ call' = [call EXCEPT ![p] = [op |-> op, id |-> id, lookup |-> lookup]]
           /\ resolved' = IF op \in DOMAIN Platform /\ lookup /\ net # "lookup_fails"
                           THEN resolved \cup {Platform[op]} ELSE resolved
           /\ unconfigured => net = "ok"
           /\ cached => net # "lookup_fails"
           /\ failure # "" => batch = <<>>
           /\ team_instagram_userid' =
                IF op = "fetch_team_instagram" /\ ~cached /\ net # "lookup_fails"
                THEN Some("ig_user") ELSE team_instagram_userid
           /\ IF failure # ""
              THEN /\ EndFetch(p, failure)
                   /\ todo' = todo
                   /\ last' = NoLast
                   /\ rerun' = [rerun EXCEPT ![p] = FALSE]
              ELSE /\ Continue(p, batch)
                   /\ last' = <<op, id, batch>>
                   /\ rerun' = [rerun EXCEPT ![p] = (last = <<op, id, batch>>)]
    /\ UNCHANGED <<xponly, team_news, player_news>>

\* the store evaluates update_one's filter
UpsertFind(p) ==
    /\ pc[p] = "nf_find"
    /\ LET c == call[p]
           doc == Doc(c, Head(todo[p]))
       IN  IF Hit(c, Collection(c), doc)
           THEN /\ IF c.op = "fetch_player_tweets"
                   THEN /\ player_news' = SetOnInsertOnMatch(c, player_news, doc)
                        /\ team_news' = team_news
                   ELSE /\ team_news' = SetOnInsertOnMatch(c, team_news, doc)
                        /\ player_news' = player_news
                /\ Continue(p, Tail(todo[p]))
           ELSE /\ pc' = [pc EXCEPT ![p] = "nf_insert"]
                /\ UNCHANGED <<team_news, player_news, todo, res, logline>>
    /\ UNCHANGED <<xponly, call, ncalls, team_instagram_userid, last, rerun, resolved>>

\* no match was found: the store inserts the document (upsert=True)
UpsertInsert(p) ==
    /\ pc[p] = "nf_insert"
    /\ LET c == call[p]
           doc == Doc(c, Head(todo[p]))
       IN  IF c.op = "fetch_player_tweets"
           THEN player_news' = Append(player_news, doc) /\ team_news' = team_news
           ELSE team_news' = Append(team_news, doc) /\ player_news' = player_news
    /\ Continue(p, Tail(todo[p]))
    /\ UNCHANGED <<xponly, call, ncalls, team_instagram_userid, last, rerun, resolved>>

\* update_one raises: the except clause of the fetch takes it
UpsertStoreError(p) ==
    /\ pc[p] \in {"nf_find", "nf_insert"}
    /\ EndFetch(p, "StoreError")
    /\ last' = NoLast
    /\ UNCHANGED <<xponly, call, ncalls, team_news, player_news, team_instagram_userid,
                   todo, rerun, resolved>>

\* the caller takes the result; the coroutine's frame is gone
FetchFinish(p) ==
    /\ pc[p] = "done"
    /\ call[p].op \in FetchOps
    /\ pc' = [pc EXCEPT ![p] = "idle"]
    /\ call' = [call EXCEPT ![p] = NoCall]
    /\ res' = [res EXCEPT ![p] = NoRes]
    /\ todo' = [todo EXCEPT ![p] = <<>>]
    /\ logline' = [logline EXCEPT ![p] = NoLog]
    /\ rerun' = [rerun EXCEPT ![p] = FALSE]
    /\ UNCHANGED <<xponly, ncalls, team_news, player_news, team_instagram_userid, last,
                   resolved>>

NetOutcomes == {"ok", "lookup_fails", "request_fails"}

NewsStart(p) ==
    \/ \E net \in NetOutcomes, batch \in Batches :
          StartFetch(p, "fetch_team_tweets", "team", net, batch)
    \/ \E net \in NetOutcomes, batch \in Batches :
          StartFetch(p, "fetch_team_instagram", "team", net, batch)
    \/ \E id \in PlayerIds, net \in NetOutcomes, batch \in Batches :
          StartFetch(p, "fetch_player_tweets", id, net, batch)

NewsStep(p) ==
    \/ UpsertFind(p)
    \/ UpsertInsert(p)
    \/ UpsertStoreError(p)
    \/ FetchFinish(p)

\* fetches run concurrently: coroutines interleave at every awaited update_one
NewsNext == \E p \in Procs : NewsStart(p) \/ NewsStep(p)
SpecNews == Init /\ [][NewsNext]_vars

\* fetches run one after the other, as a scheduler with a single job runs them
NewsSeqNext == \E p \in Procs : (AllIdle /\ NewsStart(p)) \/ NewsStep(p)
SpecNewsSeq == Init /\ [][NewsSeqNext]_vars

\* player identifiers a caller may pass
RegistryIds == {"fallen", "kscerato", "guest"}

\* ------------------------------------------------------- the read path
Timestamps == {1, 2, 3}
Limits == {1, 2, 5}

\* the player posts a store may hold after ingestion: sequences of documents, the
\* i-th with post_id i
StoredPlayerPosts ==
    UNION {{[i \in 1..n |->
               Doc([op |-> "fetch_player_tweets", id |-> f[i][1]],
                   [id |-> i, ts |-> f[i][2], text |-> "a"])] :
            f \in [1..n -> (DOMAIN Registry) \X Timestamps]} : n \in 0..MaxStored}

\* the same posts as ingested for the team
AsTeamPost(d) == Doc([op |-> "fetch_team_tweets", id |-> "team"],
                     [id |-> d.post_id, ts |-> d.timestamp, text |-> d.text])

InitStoredPosts ==
    /\ player_news \in StoredPlayerPosts
    /\ team_news = [i \in 1..Len(player_news) |-> AsTeamPost(player_news[i])]

\* find(query): the positions of the matching documents
FindAll(col) == 1..Len(col)
FindPlayer(col, player) == {i \in 1..Len(col) : col[i].player_id = player}

\* .sort("timestamp", -1): every order of the positions S in which the timestamps
\* never rise; the store fixes no order among equal timestamps
RECURSIVE SortAscending(_, _)
SortAscending(col, S) ==
    IF S = {} THEN {<<>>}
    ELSE UNION {{<<i>> \o rest : rest \in SortAscending(col, S \ {i})} :
                i \in {j \in S : \A k \in S : col[j].timestamp <= col[k].timestamp}}
RECURSIVE SortDescending(_, _)
SortDescending(col, S) ==
    IF S = {} THEN {<<>>}
    ELSE UNION {{<<i>> \o rest : rest \in SortDescending(col, S \ {i})} :
                i \in {j \in S : \A k \in S : col[j].timestamp >= col[k].timestamp}}

\* .limit(limit) and to_list(length=limit)
Min(a, b) == IF a <= b THEN a ELSE b
Limit(order, limit) == SubSeq(order, 1, Min(limit, Len(order)))

\* the documents at the positions of an order
Fetch(col, order) == [i \in 1..Len(order) |-> col[order[i]]]

\* get_latest_team_news(limit)
GetLatestTeamNews(p, limit) ==
    /\ pc[p] = "idle"
    /\ pc' = [pc EXCEPT ![p] = "done"]
    /\ call' = [call EXCEPT ![p] = [op |-> "get_latest_team_news", id |-> "team",
                                    limit |-> limit]]
    /\ \E order \in SortDescending(team_news, FindAll(team_news)) :
          res' = [res EXCEPT ![p] = [outcome |-> "returned",
                                     value |-> Fetch(team_news, Limit(order, limit))]]
    /\ UNCHANGED <<xpstate, rd, ncalls, newsstate, surveyvars, regvars>>

\* get_latest_player_news(player_username, limit)
GetLatestPlayerNews(p, player, limit) ==
    /\ pc[p] = "idle"
    /\ pc' = [pc EXCEPT ![p] = "done"]
    /\ call' = [call EXCEPT ![p] = [op |-> "get_latest_player_news", id |-> player,
                                    limit |-> limit]]
    /\ \E order \in SortDescending(player_news, FindPlayer(player_news, player)) :
          res' = [res EXCEPT ![p] = [outcome |-> "returned",
                                     value |-> Fetch(player_news, Limit(order, limit))]]
    /\ UNCHANGED <<xpstate, rd, ncalls, newsstate, surveyvars, regvars>>

\* the caller takes the list
LatestFinish(p) ==
    /\ pc[p] = "done"
    /\ call[p].op \in {"get_latest_team_news", "get_latest_player_news"}
    /\ pc' = [pc EXCEPT ![p] = "idle"]
    /\ call' = [call EXCEPT ![p] = NoCall]
    /\ res' = [res EXCEPT ![p] = NoRes]
    /\ UNCHANGED <<xpstate, rd, ncalls, newsstate, surveyvars, regvars>>

LatestNext ==
    \E p \in Procs :
        \/ AllIdle /\ \E limit \in Limits : GetLatestTeamNews(p, limit)
        \/ AllIdle /\ \E player \in RegistryIds, limit \in Limits :
                         GetLatestPlayerNews(p, player, limit)
        \/ LatestFinish(p)
\* queries over a store that ingestion has filled
InitLatestSpec ==
    InitCalls /\ InitXp /\ InitFetch /\ InitStoredPosts /\ InitSurveys /\ InitRegistry
SpecLatest == InitLatestSpec /\ [][LatestNext]_vars

\* ------------------------------------------------------- the menu
\* callback data are written as their parts between underscores:
\* "menu_team_news" is <<"menu", "team", "news">>
HomeTag == <<"menu", "home">>
NewsTag == <<"menu", "news">>
TeamNewsTag == <<"menu", "team", "news">>
PlayerNewsTag == <<"menu", "player", "news">>
PlayerTag(player) == <<"player", player>>
MenuPlayers == <<"yuurih", "kscerato", "fallen", "molodoy", "yekindar">>

\* a button labelled "Voltar" carries back |-> TRUE
Button(tag) == [callback_data |-> tag, back |-> FALSE]
BackButton(tag) == [callback_data |-> tag, back |-> TRUE]

MAIN_MENU ==
    <<Button(<<"menu", "lineup">>), Button(NewsTag), Button(<<"menu", "community">>),
      Button(<<"menu", "achievements">>), Button(<<"menu", "next", "matches">>),
      Button(<<"menu", "store">>), Button(<<"menu", "settings">>),
      Button(<<"menu", "help">>)>>
PLAYER_MENU ==
    [i \in 1..Len(MenuPlayers) |-> Button(PlayerTag(MenuPlayers[i]))]
        \o <<BackButton(NewsTag)>>

\* the callback data a chat may send: the buttons of every message the bot has
\* sent stay pressable, and the handler takes whatever matches ^(menu_|player_).+
Tags ==
    {MAIN_MENU[i].callback_data : i \in DOMAIN MAIN_MENU}
        \cup {PLAYER_MENU[i].callback_data : i \in DOMAIN PLAYER_MENU}
        \cup {HomeTag, TeamNewsTag, PlayerNewsTag,
              PlayerTag("guest"), <<"player", "fallen", "x">>, <<"menu", "x">>}

Screen(text, items, buttons) == [text |-> text, items |-> items, buttons |-> buttons]

\* start_handler: a new message with the main menu
MainScreen == Screen("main", <<>>, MAIN_MENU)

\* the fallback of menu_callback
FallbackWithoutBack == Screen("under construction", <<>>, <<>>)
Fallback == Screen("under construction", <<>>, <<BackButton(HomeTag)>>)

\* menu_callback(cmd): the screens the chain of comparisons may show; the store
\* fixes no order among posts of equal timestamps
MenuScreens(cmd) ==
    IF cmd = HomeTag THEN {MainScreen}
    ELSE IF cmd = NewsTag
    THEN {Screen("news", <<>>,
                 <<Button(TeamNewsTag), Button(PlayerNewsTag), BackButton(HomeTag)>>)}
    ELSE IF cmd = TeamNewsTag
    THEN {Screen("team news", Fetch(team_news, Limit(order, 5)), <<BackButton(NewsTag)>>) :
            order \in SortDescending(team_news, FindAll(team_news))}
    ELSE IF cmd = PlayerNewsTag
    THEN {Screen("players", <<>>, PLAYER_MENU)}
    ELSE IF Head(cmd) = "player"
    THEN {Screen(cmd[2], Fetch(player_news, Limit(order, 5)),
                 <<BackButton(PlayerNewsTag)>>) :
            order \in SortDescending(player_news, FindPlayer(player_news, cmd[2]))}
    ELSE {Fallback}

\* /start
MenuStart ==
    /\ screen' = MainScreen
    /\ UNCHANGED <<xpvars, newsstate, surveyvars, players, cfg>>

\* a button is pressed and menu_callback runs; when one of its awaits raises
\* (the read of the store, or the call that edits or sends the message), the
\* callback raises and the chat keeps the message it had
MenuCallback(cmd, outcome) ==
    /\ screen # NoScreen
    /\ \/ /\ outcome = "ok"
          /\ screen' \in MenuScreens(cmd)
       \/ /\ outcome = "raises"
          /\ screen' = screen
    /\ UNCHANGED <<xpvars, newsstate, surveyvars, players, cfg>>

MenuNext ==
    \/ MenuStart
    \/ \E cmd \in Tags, outcome \in {"ok", "raises"} : MenuCallback(cmd, outcome)
\* the menu over a store that ingestion has filled
InitMenuSpec ==
    InitCalls /\ InitXp /\ InitFetch /\ InitStoredPosts /\ InitSurveys /\ InitRegistry
SpecMenu == InitMenuSpec /\ [][MenuNext]_vars

\* ------------------------------------------------------- survey values
\* an answer or option as the store holds it: a string, an integer, a float (n is
\* its integer part), null, or a list of such scalars
StrVal(x) == [t |-> "str", n |-> 0, s |-> x, items |-> <<>>]
IntVal(k) == [t |-> "int", n |-> k, s |-> "", items |-> <<>>]
FloatVal(k, frac) == [t |-> "float", n |-> k, s |-> frac, items |-> <<>>]
NullVal == [t |-> "null", n |-> 0, s |-> "", items |-> <<>>]
ListVal(xs) == [t |-> "list", n |-> 0, s |-> "", items |-> xs]

\* str(i) for the question at position k = i + 1
Keys == <<"0", "1", "2", "3", "4">>

\* the strings int() parses
IntLiteral == ("7" :> 7)

\* the question lists create_survey is given
Choice(type, options) == [text |-> "pick", type |-> type, options |-> options]
Plain(type) == [text |-> "tell", type |-> type]
FullSurvey == <<Choice("multiple_choice", <<StrVal("A"), StrVal("B"), StrVal("C")>>),
                Plain("scale"),
                Choice("single_choice", <<StrVal("A"), StrVal("C")>>),
                Plain("text"),
                Plain("scale")>>
ShortSurvey == <<Plain("scale"), Choice("single_choice", <<StrVal("A"), StrVal("B")>>)>>
SurveyDefs == {FullSurvey, ShortSurvey}

\* the responses argument of record_survey_response: question index -> answer
R1 == ("0" :> ListVal(<<StrVal("A"), StrVal("B")>>)) @@ ("1" :> IntVal(3)) @@ ("2" :> StrVal("A"))
         @@ ("3" :> StrVal("gg")) @@ ("4" :> StrVal("7"))
R2 == ("0" :> ListVal(<<StrVal("B")>>)) @@ ("1" :> IntVal(5)) @@ ("2" :> StrVal("C"))
         @@ ("4" :> FloatVal(3, ".5"))
R3 == ("0" :> ListVal(<<StrVal("C"), StrVal("A")>>)) @@ ("1" :> StrVal("x"))
         @@ ("2" :> ListVal(<<StrVal("A"), StrVal("Z")>>)) @@ ("3" :> StrVal(""))
         @@ ("4" :> ListVal(<<IntVal(3)>>))
R4 == ("1" :> NullVal) @@ ("2" :> StrVal("B")) @@ ("3" :> IntVal(5))
R5 == ("0" :> StrVal("B")) @@ ("1" :> IntVal(7)) @@ ("4" :> IntVal(3))
R6 == ("0" :> ListVal(<<StrVal("A"), StrVal("A"), StrVal("Z")>>)) @@ ("1" :> StrVal("7"))
         @@ ("2" :> IntVal(1)) @@ ("4" :> StrVal("x"))
ResponseInputs == {R1, R2, R3, R4, R5, R6}

\* ObjectId(survey_id): "s1" and "s2" are well-formed identifiers, the store
\* gives "s1" to the survey it creates; "zz" is no ObjectId
SurveyIds == {"s1"}
ArgIds == {"s1", "s2", "zz"}
IsObjectId(id) == id \in {"s1", "s2"}

\* create_survey's document
SurveyDoc(id, questions) ==
    [id |-> id, title |-> "t", questions |-> questions, min_level |-> 1,
     active |-> TRUE, responses_count |-> 0]

\* record_survey_response's document
ResponseDoc(survey_id, user_id, responses) ==
    [survey_id |-> survey_id, user_id |-> user_id, responses |-> responses]

\* ------------------------------------------------- the aggregator's arithmetic
\* response["responses"].get(str(i))
AnswerOf(response, k) ==
    IF Keys[k] \in DOMAIN response.responses THEN response.responses[Keys[k]] ELSE NullVal

\* if selected in option_counts: option_counts[selected] += 1
Bump(counts, v) == IF v \in DOMAIN counts THEN [counts EXCEPT ![v] = @ + 1] ELSE counts

\* for selected in answer: ...
RECURSIVE TallyMembers(_, _)
TallyMembers(counts, members) ==
    IF members = <<>> THEN counts
    ELSE TallyMembers(Bump(counts, Head(members)), Tail(members))

\* if isinstance(answer, list): ... elif answer in option_counts: ...
TallyAnswerFirstOnly(counts, answer) ==
    IF answer.t = "list"
    THEN IF answer.items = <<>> THEN counts ELSE Bump(counts, Head(answer.items))
    ELSE Bump(counts, answer)
TallyAnswer(counts, answer) ==
    IF answer.t = "list" THEN TallyMembers(counts, answer.items) ELSE Bump(counts, answer)

\* option_counts = {option: 0 for option in options}; for response in responses: ...
RECURSIVE TallyResponses(_, _, _)
TallyResponses(counts, responses, k) ==
    IF responses = <<>> THEN counts
    ELSE TallyResponses(TallyAnswer(counts, AnswerOf(Head(responses), k)),
                        Tail(responses), k)
OptionCounts(question, responses, k) ==
    LET options == IF "options" \in DOMAIN question THEN question.options ELSE <<>>
    IN  TallyResponses([o \in {options[i] : i \in DOMAIN options} |-> 0], responses, k)

\* if answer: text_answers.append(answer)
Truthy(a) ==
    CASE a.t = "null" -> FALSE
      [] a.t = "str" -> a.s # ""
      [] a.t = "int" -> a.n # 0
      [] a.t = "float" -> TRUE
      [] a.t = "list" -> a.items # <<>>
RECURSIVE TextAnswers(_, _)
TextAnswers(responses, k) ==
    IF responses = <<>> THEN <<>>
    ELSE LET a == AnswerOf(Head(responses), k)
         IN  (IF Truthy(a) THEN <<a>> ELSE <<>>) \o TextAnswers(Tail(responses), k)

\* int(answer): the integer, or ValueError / TypeError (no value)
Coerce(a) ==
    CASE a.t = "int" -> Some(a.n)
      [] a.t = "float" -> Some(a.n)
      [] a.t = "str" -> IF a.s \in DOMAIN IntLiteral THEN Some(IntLiteral[a.s]) ELSE None
      [] a.t = "list" -> None
      [] a.t = "null" -> None

\* if answer is not None: try: scale_answers.append(int(answer)) except: pass
RECURSIVE ScaleAnswers(_, _)
ScaleAnswers(responses, k) ==
    IF responses = <<>> THEN <<>>
    ELSE LET a == AnswerOf(Head(responses), k)
             v == IF a.t = "null" THEN None ELSE Coerce(a)
         IN  (IF v = None THEN <<>> ELSE <<TheOne(v)>>) \o ScaleAnswers(Tail(responses), k)

RECURSIVE Sum(_)
Sum(xs) == IF xs = <<>> THEN 0 ELSE Head(xs) + Sum(Tail(xs))

\* distribution[value] = distribution.get(value, 0) + 1
RECURSIVE DistributionFlat(_, _)
DistributionFlat(dist, xs) ==
    IF xs = <<>> THEN dist
    ELSE DistributionFlat(IF Head(xs) \in DOMAIN dist THEN dist ELSE dist @@ (Head(xs) :> 1),
                          Tail(xs))
RECURSIVE Distribution(_, _)
Distribution(dist, xs) ==
    IF xs = <<>> THEN dist
    ELSE Distribution(IF Head(xs) \in DOMAIN dist
                      THEN [dist EXCEPT ![Head(xs)] = @ + 1]
                      ELSE dist @@ (Head(xs) :> 1),
                      Tail(xs))

\* the entry of one question; the average sum / len is kept as the fraction
QuestionResults(question, responses, k) ==
    LET base == [question |-> question.text, type |-> question.type]
    IN  IF question.type \in {"multiple_choice", "single_choice"}
        THEN base @@ [option_counts |-> OptionCounts(question, responses, k)]
        ELSE IF question.type = "text"
        THEN base @@ [text_answers |-> TextAnswers(responses, k)]
        ELSE IF question.type = "scale"
        THEN LET xs == ScaleAnswers(responses, k)
                 vals == {xs[i] : i \in DOMAIN xs}
             IN  IF xs = <<>> THEN base
                 ELSE base @@ [average |-> [num |-> Sum(xs), den |-> Len(xs)],
                               min |-> CHOOSE x \in vals : \A y \in vals : x <= y,
                               max |-> CHOOSE x \in vals : \A y \in vals : x >= y,
                               distribution |-> Distribution(<<>>, xs)]
        ELSE base

\* the results get_survey_results builds from a survey and its responses
Results(survey, responses) ==
    [survey_title |-> survey.title,
     total_responses |-> Len(responses),
     questions |-> [k \in 1..Len(survey.questions) |->
                      QuestionResults(survey.questions[k], responses, k)]]

\* ------------------------------------------------------- SurveyService
\* what no survey operation touches
surveyframe == <<xpstate, ncalls, team_news, player_news, team_instagram_userid, todo,
                last, rerun, resolved, regvars>>

\* find_one({"_id": ObjectId(survey_id)}): the first match, or None
FindSurvey(id) ==
    LET hits == {i \in 1..Len(surveys) : surveys[i].id = id}
    IN  IF hits = {} THEN None
        ELSE Some(surveys[CHOOSE i \in hits : \A j \in hits : i <= j])

\* find({"survey_id": ObjectId(survey_id)}) read with to_list(length=None)
FindEveryResponse(id) == survey_responses
FindResponses(id) == SelectSeq(survey_responses, LAMBDA r : r.survey_id = id)

\* what find_one and find leave of the collection they read
AfterFindOneAndDelete(col) == IF col = <<>> THEN col ELSE Tail(col)
AfterFind(col) == col

\* {"$inc": {"responses_count": 1}} on the survey with that _id, if any
IncResponsesCount(id) ==
    [i \in 1..Len(surveys) |->
        IF surveys[i].id = id /\ \A j \in 1..(i - 1) : surveys[j].id # id
        THEN [surveys[i] EXCEPT !.responses_count = @ + 1] ELSE surveys[i]]

\* create_survey: insert_one gives the survey a fresh _id
CreateSurvey(questions) ==
    /\ \E id \in SurveyIds :
          /\ FindSurvey(id) = None
          /\ surveys' = Append(surveys, SurveyDoc(id, questions))
    /\ UNCHANGED <<surveyframe, pc, call, rd, res, logline, survey_responses>>

\* get_survey_results(survey_id) is called
StartGetSurveyResults(p, id) ==
    /\ pc[p] = "idle"
    /\ pc' = [pc EXCEPT ![p] = "gs_get"]
    /\ call' = [call EXCEPT ![p] = [op |-> "get_survey_results", id |-> id]]
    /\ UNCHANGED <<surveyframe, rd, res, logline, surveys, survey_responses>>

\* survey = await self.get_survey(survey_id); if not survey: return {"error": ...}
\* ObjectId(survey_id) raises InvalidId on a malformed identifier
GsrGet(p) ==
    /\ pc[p] = "gs_get"
    /\ LET survey == FindSurvey(call[p].id)
       IN  IF ~IsObjectId(call[p].id)
           THEN /\ pc' = [pc EXCEPT ![p] = "done"]
                /\ res' = [res EXCEPT ![p] = [outcome |-> "raised", error |-> "InvalidId"]]
                /\ logline' = [logline EXCEPT ![p] = [level |-> "error", error |-> "InvalidId"]]
                /\ UNCHANGED <<rd, surveys>>
           ELSE /\ surveys' = AfterFind(surveys)
                /\ logline' = logline
                /\ IF survey = None
                   THEN /\ pc' = [pc EXCEPT ![p] = "done"]
                        /\ res' = [res EXCEPT ![p] =
                                     [outcome |-> "returned",
                                      value |-> [error |-> "Pesquisa nao encontrada"]]]
                        /\ rd' = rd
                   ELSE /\ pc' = [pc EXCEPT ![p] = "gs_find"]
                        /\ rd' = [rd EXCEPT ![p] = survey]
                        /\ res' = res
    /\ UNCHANGED <<surveyframe, call, survey_responses>>

\* responses = await responses_cursor.to_list(length=None); the loop; return results
GsrFind(p) ==
    /\ pc[p] = "gs_find"
    /\ survey_responses' = AfterFind(survey_responses)
    /\ res' = [res EXCEPT ![p] =
                 [outcome |-> "returned",
                  value |-> Results(TheOne(rd[p]), FindResponses(call[p].id))]]
    /\ pc' = [pc EXCEPT ![p] = "done"]
    /\ UNCHANGED <<surveyframe, call, rd, logline, surveys>>

\* record_survey_response(survey_id, user_id, responses) is called; building
\* response_data raises InvalidId on a malformed identifier, before the try
StartRecordSurveyResponse(p, id, uid, responses) ==
    /\ pc[p] = "idle"
    /\ Len(survey_responses) < MaxResponses
    /\ call' = [call EXCEPT ![p] = [op |-> "record_survey_response", id |-> id,
                                    user_id |-> uid, responses |-> responses]]
    /\ IF IsObjectId(id)
       THEN pc' = [pc EXCEPT ![p] = "rs_insert"] /\ res' = res
       ELSE /\ pc' = [pc EXCEPT ![p] = "done"]
            /\ res' = [res EXCEPT ![p] = [outcome |-> "raised", error |-> "InvalidId"]]
    /\ UNCHANGED <<surveyframe, rd, logline, surveys, survey_responses>>

\* await self.db.db.survey_responses.insert_one(response_data)
RsrInsert(p) ==
    /\ pc[p] = "rs_insert"
    /\ survey_responses' =
          Append(survey_responses,
                 ResponseDoc(call[p].id, call[p].user_id, call[p].responses))
    /\ pc' = [pc EXCEPT ![p] = "rs_inc"]
    /\ UNCHANGED <<surveyframe, call, rd, res, logline, surveys>>

\* await self.collection.update_one(..., {"$inc": ...}); return {"success": True}
RsrInc(p) ==
    /\ pc[p] = "rs_inc"
    /\ surveys' = IncResponsesCount(call[p].id)
    /\ res' = [res EXCEPT ![p] = [outcome |-> "returned", value |-> [success |-> TRUE]]]
    /\ logline' = [logline EXCEPT ![p] = [level |-> "info"]]
    /\ pc' = [pc EXCEPT ![p] = "done"]
    /\ UNCHANGED <<surveyframe, call, rd, survey_responses>>

\* a store operation raises: except Exception as e: logger.error(...); raise
SurveyStoreError(p) ==
    /\ pc[p] \in {"gs_get", "gs_find", "rs_insert", "rs_inc"}
    /\ pc[p] = "gs_get" => IsObjectId(call[p].id)
    /\ res' = [res EXCEPT ![p] = [outcome |-> "raised", error |-> "StoreError"]]
    /\ logline' = [logline EXCEPT ![p] = [level |-> "error", error |-> "StoreError"]]
    /\ pc' = [pc EXCEPT ![p] = "done"]
    /\ UNCHANGED <<surveyframe, call, rd, surveys, survey_responses>>

\* the caller takes the result; the coroutine's frame is gone
SurveyFinish(p) ==
    /\ pc[p] = "done"
    /\ call[p].op \in {"get_survey_results", "record_survey_response",
                      "deactivate_survey", "get_active_surveys"}
    /\ pc' = [pc EXCEPT ![p] = "idle"]
    /\ call' = [call EXCEPT ![p] = NoCall]
    /\ rd' = [rd EXCEPT ![p] = None]
    /\ res' = [res EXCEPT ![p] = NoRes]
    /\ logline' = [logline EXCEPT ![p] = NoLog]
    /\ UNCHANGED <<surveyframe, surveys, survey_responses>>

\* the responses a caller records: any of them for "s1", one for the others
RecordInputs == ({"s1"} \X ResponseInputs) \cup ({"s2", "zz"} \X {R1})

SurveyStart(p) ==
    \/ \E id \in ArgIds : StartGetSurveyResults(p, id)
    \/ \E in \in RecordInputs : StartRecordSurveyResponse(p, in[1], 1, in[2])

SurveyStep(p) ==
    \/ GsrGet(p)
    \/ GsrFind(p)
    \/ RsrInsert(p)
    \/ RsrInc(p)
    \/ SurveyStoreError(p)
    \/ SurveyFinish(p)

\* survey operations run one after the other
SurveyNext ==
    \/ \E questions \in SurveyDefs : CreateSurvey(questions)
    \/ \E p \in Procs : (AllIdle /\ SurveyStart(p)) \/ SurveyStep(p)

\* the survey operations run beside a users collection holding any created users
InitStoredUsers ==
    /\ users \in SUBSET {NewUserDoc(tid) : tid \in TelegramIds}
    /\ svc_users \in {<<>>} \cup {<<NewProfileDoc(uid)>> : uid \in UserIds}
    /\ applied = 0
    /\ svcApplied = 0
    /\ returned = 0
    /\ svcReturned = 0
InitSurveySpec ==
    InitCalls /\ InitStoredUsers /\ InitFetch /\ InitPosts /\ InitSurveys /\ InitRegistry
SpecSurvey == InitSurveySpec /\ [][SurveyNext]_vars

\* ------------------------------------------------- the survey lifecycle
LifecycleIds == {"s1", "s2"}
Levels == {1, 2}

\* create_survey(..., min_level): insert_one gives the survey a fresh _id
CreateSurveyWithLevel(id, questions, min_level) ==
    /\ FindSurvey(id) = None
    /\ surveys' = Append(surveys, [SurveyDoc(id, questions) EXCEPT !.min_level = min_level])
    /\ UNCHANGED <<surveyframe, pc, call, rd, res, logline, survey_responses>>

\* {"$set": {"active": False, ...}} on the survey with that _id, if any
SetInactive(id) ==
    [i \in 1..Len(surveys) |->
        IF surveys[i].id = id THEN [surveys[i] EXCEPT !.active = FALSE] ELSE surveys[i]]

\* deactivate_survey(survey_id): one update_one; modified_count is 1 when a
\* survey matched (updated_at is set anew), 0 when none did; store says whether
\* the update_one raises
DeactivateSurvey(p, id, store) ==
    /\ pc[p] = "idle"
    /\ pc' = [pc EXCEPT ![p] = "done"]
    /\ call' = [call EXCEPT ![p] = [op |-> "deactivate_survey", id |-> id]]
    /\ IF ~IsObjectId(id) \/ store # "ok"
       THEN /\ surveys' = surveys
            /\ res' = [res EXCEPT ![p] =
                         [outcome |-> "raised",
                          error |-> IF IsObjectId(id) THEN "StoreError" ELSE "InvalidId"]]
            /\ logline' = [logline EXCEPT ![p] =
                             [level |-> "error",
                              error |-> IF IsObjectId(id) THEN "StoreError" ELSE "InvalidId"]]
       ELSE /\ surveys' = SetInactive(id)
            /\ res' = [res EXCEPT ![p] =
                         [outcome |-> "returned",
                          value |-> [success |-> FindSurvey(id) # None]]]
            /\ logline' = [logline EXCEPT ![p] =
                             [level |-> IF FindSurvey(id) # None THEN "info" ELSE "warning"]]
    /\ UNCHANGED <<surveyframe, rd, survey_responses>>

\* find({"active": True, "requirements.min_level": {"$lte": user_level}})
EverySurvey(user_level) == surveys
ActiveSurveys(user_level) ==
    SelectSeq(surveys, LAMBDA d : d.active /\ d.min_level <= user_level)

\* get_active_surveys(user_level): one find read with to_list(length=None)
GetActiveSurveys(p, user_level, store) ==
    /\ pc[p] = "idle"
    /\ pc' = [pc EXCEPT ![p] = "done"]
    /\ call' = [call EXCEPT ![p] = [op |-> "get_active_surveys", user_level |-> user_level]]
    /\ IF store # "ok"
       THEN /\ res' = [res EXCEPT ![p] = [outcome |-> "raised", error |-> "StoreError"]]
            /\ logline' = [logline EXCEPT ![p] = [level |-> "error", error |-> "StoreError"]]
       ELSE /\ res' = [res EXCEPT ![p] =
                         [outcome |-> "returned", value |-> ActiveSurveys(user_level)]]
            /\ logline' = logline
    /\ UNCHANGED <<surveyframe, rd, surveys, survey_responses>>

StoreAnswers == {"ok", "raises"}

\* survey operations run one after the other over surveys of either level
LifecycleNext ==
    \/ \E id \in LifecycleIds, min_level \in Levels :
          CreateSurveyWithLevel(id, ShortSurvey, min_level)
    \/ \E p \in Procs :
          \/ /\ AllIdle
             /\ \/ \E id \in ArgIds, store \in StoreAnswers : DeactivateSurvey(p, id, store)
                \/ \E user_level \in Levels, store \in StoreAnswers :
                      GetActiveSurveys(p, user_level, store)
                \/ \E id \in LifecycleIds : StartRecordSurveyResponse(p, id, 1, R5)
                \/ \E id \in LifecycleIds : StartGetSurveyResults(p, id)
          \/ SurveyStep(p)
SpecLifecycle == Init /\ [][LifecycleNext]_vars

\* the aggregator applied to a stored survey and any stored responses to it
InitAggregate ==
    /\ surveys = <<SurveyDoc("s1", FullSurvey)>>
    /\ survey_responses \in
          UNION {[1..n -> {ResponseDoc("s1", 1, r) : r \in ResponseInputs}] :
                 n \in 0..MaxAnswers}

AggregateNext ==
    \E p \in Procs :
        \/ AllIdle /\ StartGetSurveyResults(p, "s1")
        \/ GsrGet(p)
        \/ GsrFind(p)
        \/ SurveyFinish(p)
InitAggregateSpec ==
    InitCalls /\ InitXp /\ InitFetch /\ InitPosts /\ InitAggregate /\ InitRegistry
SpecAggregate == InitAggregateSpec /\ [][AggregateNext]_vars

\* ------------------------------------------------------- PlayerService
RegistryOps == [get_twitter_handle |-> "twitter", get_instagram_id |-> "instagram_id"]

\* the service constructed over any configuration source
InitAnyConfig ==
    /\ cfg \in ConfigSources
    /\ players = LoadPlayers(cfg)

\* get_twitter_handle / get_instagram_id: one synchronous read of self.players
GetHandle(p, op, id) ==
    /\ pc[p] = "idle"
    /\ pc' = [pc EXCEPT ![p] = "done"]
    /\ call' = [call EXCEPT ![p] = [op |-> op, id |-> id]]
    /\ res' = [res EXCEPT ![p] = Lookup(players, id, RegistryOps[op])]
    /\ UNCHANGED <<xpstate, rd, ncalls, newsstate, surveyvars, regvars>>

\* the caller takes the result
HandleFinish(p) ==
    /\ pc[p] = "done"
    /\ call[p].op \in DOMAIN RegistryOps
    /\ pc' = [pc EXCEPT ![p] = "idle"]
    /\ call' = [call EXCEPT ![p] = NoCall]
    /\ res' = [res EXCEPT ![p] = NoRes]
    /\ UNCHANGED <<xpstate, rd, ncalls, newsstate, surveyvars, regvars>>

RegistryNext ==
    \E p \in Procs :
        \/ \E op \in DOMAIN RegistryOps, id \in RegistryIds : GetHandle(p, op, id)
        \/ HandleFinish(p)
InitRegistrySpec ==
    InitCalls /\ InitXp /\ InitFetch /\ InitPosts /\ InitSurveys /\ InitAnyConfig
SpecRegistry == InitRegistrySpec /\ [][RegistryNext]_vars

\* ============================================================== properties
\* the stored level of user tid / of the profile find_one gives for uid
Stored(tid) == TheOne(GetUser(tid))
Profile(uid) == TheOne(GetUserProfile(uid))
FinishedAddXp(p) ==
    pc[p] = "done" /\ call[p].op = "add_xp" /\ res[p].outcome = "returned"
FinishedUpdateUserXp(p) ==
    /\ pc[p] = "done" /\ call[p].op = "update_user_xp"
    /\ res[p].outcome = "returned" /\ res[p].value # None

\* --------------------------------------------------------------------- C1
LevelNeverFalls ==
    /\ \A d \in users : \A e \in users' :
          e.telegram_id = d.telegram_id => e.level >= d.level
    /\ \A i \in 1..Len(svc_users) : svc_users'[i].level >= svc_users[i].level
    /\ \A p \in Procs :
          /\ pc[p] = "ax_inc" /\ pc'[p] = "done" /\ res'[p].outcome = "returned"
                => res'[p].new_level >= TheOne(rd[p]).level
          /\ pc[p] = "ux_ret" /\ pc'[p] = "done" /\ res'[p].outcome = "returned"
                => TheOne(res'[p].value).level >= TheOne(rd[p]).level

\* C1: with grants processed one after the other, a non-negative grant by add_xp
\* or update_user_xp never lowers the level: the level stored, and the level the
\* call reports, are at least the level before the grant.
C1_LevelMonotone == [][LevelNeverFalls]_vars

C1_Witness ==
    /\ \E d \in users : d.level >= 3
    /\ GetUserProfile(1) # None /\ Profile(1).level >= 3

\* --------------------------------------------------------------------- C2
XpNeverFalls ==
    /\ \A d \in users : \A e \in users' :
          e.telegram_id = d.telegram_id => e.xp >= d.xp /\ e.xp >= 0
    /\ \A i \in 1..Len(svc_users) :
          svc_users'[i].xp >= svc_users[i].xp /\ svc_users'[i].xp >= 0

\* C2 as claimed: across any sequence of grants by add_xp or update_user_xp the
\* stored experience never decreases and is never negative.
C2_XpNeverDecreases == [][XpNeverFalls]_vars

XpFallsOnlyOnLevelUp ==
    /\ \A d \in users : \A e \in users' :
          e.telegram_id = d.telegram_id => e.xp >= d.xp /\ e.xp >= 0
    /\ \A i \in 1..Len(svc_users) :
          /\ svc_users'[i].xp >= 0
          /\ svc_users'[i].xp < svc_users[i].xp => svc_users'[i].level > svc_users[i].level

\* C2 amended: across any sequence of grants, the experience add_xp stores never
\* decreases and is never negative; the experience update_user_xp stores is never
\* negative and decreases only in a grant that raises the level (the thresholds
\* crossed are spent).
C2_XpFallsOnlyOnLevelUp == [][XpFallsOnlyOnLevelUp]_vars

C2_Witness ==
    /\ GetUserProfile(1) # None
    /\ svcApplied = 120 /\ Profile(1).level = 2 /\ Profile(1).xp = 20

\* --------------------------------------------------------------------- C3
NoGrantInFlight == \A p \in Procs : pc[p] \in {"idle", "done"}

\* C3 as claimed: once no grant is in flight, the stored progression is the one
\* that applying every written grant one after the other gives: no grant is lost.
C3_NoLostUpdate ==
    NoGrantInFlight =>
        /\ \A d \in users : d.xp = applied /\ d.level = ClosedFormLevel(applied)
        /\ GetUserProfile(1) # None =>
              LET seq == LevelUpLoop(svcApplied, 1, 100)
              IN  /\ Profile(1).xp = seq.xp
                  /\ Profile(1).level = seq.level
                  /\ Profile(1).xp_to_next_level = seq.xp_to_next_level

\* --------------------------------------------------------------------- C9
\* C9 as claimed: leveled_up iff the new level exceeds the level before the grant,
\* and previous_level is the level before the grant in every case.
C9_PreviousLevelAlways ==
    \A p \in Procs : FinishedAddXp(p) =>
        /\ res[p].level_up = (res[p].new_level > TheOne(rd[p]).level)
        /\ res[p].previous_level = Some(TheOne(rd[p]).level)

\* C9 amended: add_xp reports level_up as true exactly when the new level is
\* greater than the level of the document it read, and reports that level as
\* previous_level when level_up is true and no previous_level (None) otherwise.
C9_PreviousLevelOnLevelUp ==
    \A p \in Procs : FinishedAddXp(p) =>
        /\ res[p].level_up = (res[p].new_level > TheOne(rd[p]).level)
        /\ res[p].previous_level =
              IF res[p].level_up THEN Some(TheOne(rd[p]).level) ELSE None

C9_Witness ==
    \E p, q \in Procs :
        /\ FinishedAddXp(p) /\ ~res[p].level_up /\ res[p].previous_level = None
        /\ FinishedAddXp(q) /\ res[q].level_up /\ res[q].previous_level = Some(1)

\* -------------------------------------------------------------------- C10
CreatedMetrics(d) ==
    IF "telegram_id" \in DOMAIN d
    THEN NewUserDoc(d.telegram_id).engagement_metrics
    ELSE NewProfileDoc(d.user_id).engagement_metrics

\* C10 as claimed: every grant, by add_xp or by update_user_xp, increments
\* bot_interactions by exactly 1 and changes no other engagement counter, so after
\* n grants the counter has grown by n.
C10_EveryGrantCounts ==
    /\ \A d \in users : d.engagement_metrics =
          [CreatedMetrics(d) EXCEPT !.bot_interactions = @ + returned]
    /\ GetUserProfile(1) # None => Profile(1).engagement_metrics =
          [CreatedMetrics(Profile(1)) EXCEPT !.bot_interactions = @ + svcReturned]

\* C10 amended: every add_xp call that returns has incremented bot_interactions by
\* exactly 1 and changed no other engagement counter, so after n returned add_xp
\* grants the counter has grown by n; update_user_xp changes no engagement counter
\* (it does not increment bot_interactions).
C10_OnlyAddXpCounts ==
    /\ \A d \in users : d.engagement_metrics =
          [CreatedMetrics(d) EXCEPT !.bot_interactions = @ + returned]
    /\ \A i \in 1..Len(svc_users) :
          svc_users[i].engagement_metrics = CreatedMetrics(svc_users[i])

C10_Witness == returned = 1 /\ svcReturned = 1 /\ svcApplied > 0

\* ------------------------------------------------------------- ingestion
FinishedFetch(p) == pc[p] = "done" /\ call[p].op \in FetchOps
Unconfigured(p) ==
    call[p].op = "fetch_player_tweets" /\ GetTwitterHandle(call[p].id) = None

\* the items of a response the loop stores: those before the first malformed one
RECURSIVE Storable(_)
Storable(batch) ==
    IF batch = <<>> \/ IsMalformed(Head(batch)) THEN <<>>
    ELSE <<Head(batch)>> \o Storable(Tail(batch))

CopiesOf(c, item) ==
    LET col == Collection(c)
    IN  Cardinality({j \in 1..Len(col) :
            IF c.op = "fetch_player_tweets"
            THEN col[j].player_id = c.id /\ col[j].post_id = item.id
            ELSE col[j].source = Doc(c, item).source /\ col[j].post_id = item.id})

\* --------------------------------------------------------------------- C4
OneCopyOfEachItem ==
    \A p \in Procs :
        FinishedFetch(p) /\ last # NoLast =>
            \A i \in 1..Len(Storable(last[3])) : CopiesOf(call[p], last[3][i]) = 1

RerunStoresNothing ==
    (\E p \in Procs : rerun[p]) => team_news' = team_news /\ player_news' = player_news

\* C4: with fetches run one after the other, a fetch whose store writes succeeded
\* and that is run again over the same response leaves team_news and player_news
\* exactly as the first run left them, and a fetch leaves exactly one stored post
\* per key of the items it stored (those before the first malformed one).
C4_Idempotent == []OneCopyOfEachItem /\ [][RerunStoresNothing]_vars

C4_Witness ==
    \E p \in Procs :
        /\ FinishedFetch(p) /\ rerun[p] /\ logline[p].level = "info"
        /\ last # NoLast /\ Len(last[3]) = 2 /\ last[3][1].id # last[3][2].id

\* --------------------------------------------------------------------- C5
\* C5 as claimed: in every reachable state, concurrent fetches included, no two
\* team posts share (source, post_id) and no two player posts share
\* (player_id, post_id).
C5_UniqueKeys ==
    /\ \A i, j \in 1..Len(team_news) :
          i # j => ~(/\ team_news[i].source = team_news[j].source
                     /\ team_news[i].post_id = team_news[j].post_id)
    /\ \A i, j \in 1..Len(player_news) :
          i # j => ~(/\ player_news[i].player_id = player_news[j].player_id
                     /\ player_news[i].post_id = player_news[j].post_id)

\* --------------------------------------------------------------------- C6
IsPrefix(s, t) == Len(s) <= Len(t) /\ \A i \in 1..Len(s) : t[i] = s[i]

\* C6: a stored post is never overwritten, refreshed or removed: every step leaves
\* each stored document of team_news and player_news in place with every field
\* unchanged, also when an item with its key and another text is fetched.
C6_NeverOverwritten ==
    [][IsPrefix(team_news, team_news') /\ IsPrefix(player_news, player_news')]_vars

C6_Witness ==
    \E p \in Procs :
        /\ FinishedFetch(p) /\ call[p].op = "fetch_team_tweets"
        /\ logline[p].level = "info" /\ last # NoLast
        /\ last[3] = <<[id |-> 1, ts |-> 2, text |-> "b"]>>
        /\ team_news = <<[source |-> "twitter", post_id |-> 1, timestamp |-> 1, text |-> "a"]>>

\* --------------------------------------------------------------------- C7
\* C7: no failure escapes a fetch: every fetch_team_tweets, fetch_team_instagram
\* and fetch_player_tweets call returns to its caller without raising, and a call
\* that did not reach the end of its response has logged an error.
C7_NoFailureEscapes ==
    \A p \in Procs : FinishedFetch(p) =>
        /\ res[p].outcome = "returned"
        /\ logline[p].level \in {"info", "error"}
        /\ logline[p].level = "info" => todo[p] = <<>>

C7_Witness ==
    \E p \in Procs :
        /\ FinishedFetch(p) /\ call[p].op = "fetch_team_instagram"
        /\ logline[p].level = "error" /\ logline[p].error = "KeyError"
        /\ Len(team_news) = 1

\* --------------------------------------------------------------------- C8
\* C8 as claimed: a fetch_player_tweets call for a player without a configured
\* handle gives its caller an outcome that differs from the outcome of a fetch that
\* succeeded and from the outcome of a fetch that failed otherwise, and stores
\* nothing.
C8_NotConfiguredOutcome ==
    \A p, q \in Procs :
        FinishedFetch(p) /\ Unconfigured(p) =>
            /\ todo[p] = <<>>
            /\ FinishedFetch(q) /\ ~Unconfigured(q) => res[p] # res[q]

\* -------------------------------------------------------------------- C11
\* C11: in every reachable state of UserModel's collection, after create_user and
\* any sequence or interleaving of add_xp calls with non-negative amounts, the
\* stored level is the one the progression function gives for the stored
\* experience: level = 1 + floor((xp / 100) ^ 0.8).
C11_LevelMatchesXp == \A d \in users : d.level = ClosedFormLevel(d.xp)

C11_Witness ==
    /\ \E d \in users : d.xp = 310 /\ d.level = 3
    /\ \E p \in Procs : FinishedAddXp(p) /\ TheOne(rd[p]).xp > 0

\* -------------------------------------------------------------------- C19
LookupReused ==
    \A p \in Procs :
        /\ pc[p] = "idle" /\ pc'[p] # "idle"
        /\ call'[p].op \in DOMAIN Platform
        /\ Platform[call'[p].op] \in resolved
        => ~call'[p].lookup

\* C19 as claimed: on one NewsService instance, once the lookup of the team's
\* identifier has succeeded on a platform, no later fetch_team_tweets or
\* fetch_team_instagram call issues that lookup again: it reuses the cached
\* identifier.
C19_LookupAtMostOnce == [][LookupReused]_vars

\* -------------------------------------------------------------------- C20
FinishedLookup(p) == pc[p] = "done" /\ call[p].op \in DOMAIN RegistryOps

EmptyRegistryAnswersAbsent ==
    cfg \in {"missing", "unreadable", "malformed"} =>
        /\ players = EmptyDict
        /\ \A p \in Procs : FinishedLookup(p) =>
              res[p] = [outcome |-> "returned", value |-> None]

\* C20: when the configuration source is missing, unreadable or not parsable,
\* PlayerService holds an empty registry, every get_twitter_handle and
\* get_instagram_id lookup for every player identifier returns absent, and no
\* operation changes the registry after construction.
C20_EmptyRegistry == []EmptyRegistryAnswersAbsent /\ [][players' = players]_vars

C20_Witness ==
    /\ cfg = "malformed"
    /\ \E p, q \in Procs :
          /\ FinishedLookup(p) /\ call[p] = [op |-> "get_twitter_handle", id |-> "fallen"]
          /\ FinishedLookup(q) /\ call[q] = [op |-> "get_instagram_id", id |-> "fallen"]

\* -------------------------------------------------------------------- C12
Range(f) == {f[i] : i \in DOMAIN f}

\* r is the newest posts of the documents S, newest first, limit at most
NewestFirst(r, S, limit) ==
    /\ Len(r) = Min(limit, Cardinality(S))
    /\ \A i \in 1..Len(r) : r[i] \in S
    /\ \A i, j \in 1..Len(r) : i < j => r[i] # r[j] /\ r[i].timestamp >= r[j].timestamp
    /\ \A d \in S \ Range(r) : \A i \in 1..Len(r) : r[i].timestamp >= d.timestamp

\* C12: for a positive limit, get_latest_team_news(limit) returns exactly
\* min(limit, number of stored team posts) posts, the ones with the newest
\* timestamps, newest first, and the empty list when no team post is stored;
\* get_latest_player_news(player, limit) does the same over the posts whose
\* player_id is that player and returns no other player's post.
C12_LatestNewestFirst ==
    \A p \in Procs : pc[p] = "done" =>
        /\ call[p].op = "get_latest_team_news" =>
              /\ res[p].outcome = "returned"
              /\ NewestFirst(res[p].value, Range(team_news), call[p].limit)
        /\ call[p].op = "get_latest_player_news" =>
              /\ res[p].outcome = "returned"
              /\ NewestFirst(res[p].value,
                             {d \in Range(player_news) : d.player_id = call[p].id},
                             call[p].limit)
              /\ \A i \in 1..Len(res[p].value) : res[p].value[i].player_id = call[p].id

C12_Witness ==
    /\ Len(player_news) = 3
    /\ \E i, j \in 1..3 : /\ player_news[i].player_id # player_news[j].player_id
                          /\ player_news[i].timestamp > player_news[j].timestamp
                          /\ player_news[j].player_id = "fallen"
    /\ \E p \in Procs :
          /\ pc[p] = "done" /\ call[p].op = "get_latest_player_news"
          /\ call[p].id = "fallen" /\ call[p].limit = 1 /\ Len(res[p].value) = 1
          /\ Cardinality(FindPlayer(player_news, "fallen")) = 2

\* ------------------------------------------------------------- aggregation
\* process p holds the outcome of a get_survey_results call the store answered;
\* rd[p] is the survey get_survey found for it, if any
FinishedResults(p) ==
    /\ pc[p] = "done" /\ call[p].op = "get_survey_results"
    /\ ~(res[p].outcome = "raised" /\ res[p].error = "StoreError")
StoredFor(id) == {i \in 1..Len(survey_responses) : survey_responses[i].survey_id = id}
DeclaredOptions(question) == {question.options[i] : i \in DOMAIN question.options}
IsChoice(question) == question.type \in {"multiple_choice", "single_choice"}

\* -------------------------------------------------------------------- C13
\* C13: for an existing survey with no stored response, get_survey_results returns
\* (raises nothing) a result with total_responses = 0 and one entry per question:
\* a choice question has count 0 for exactly its declared options, a text question
\* an empty answer list, a scale question no average, min, max or distribution.
C13_EmptyResult ==
    \A p \in Procs :
        FinishedResults(p) /\ rd[p] # None /\ StoredFor(call[p].id) = {} =>
            LET questions == TheOne(rd[p]).questions
            IN  /\ res[p].outcome = "returned"
                /\ DOMAIN res[p].value = {"survey_title", "total_responses", "questions"}
                /\ res[p].value.total_responses = 0
                /\ DOMAIN res[p].value.questions = DOMAIN questions
                /\ \A k \in DOMAIN questions :
                      LET q == questions[k]
                          entry == res[p].value.questions[k]
                      IN  /\ entry.type = q.type
                          /\ IsChoice(q) =>
                                /\ DOMAIN entry.option_counts = DeclaredOptions(q)
                                /\ \A o \in DeclaredOptions(q) : entry.option_counts[o] = 0
                          /\ q.type = "text" => entry.text_answers = <<>>
                          /\ q.type = "scale" => DOMAIN entry = {"question", "type"}

C13_Witness ==
    \E p \in Procs :
        /\ FinishedResults(p) /\ call[p].id = "s1" /\ res[p].outcome = "returned"
        /\ rd[p] # None /\ TheOne(rd[p]).questions = FullSurvey
        /\ survey_responses # <<>> /\ StoredFor("s1") = {}
        /\ res[p].value.total_responses = 0

\* -------------------------------------------------------------------- C14
\* where option o occurs in answer a: the positions of a list answer holding it,
\* position 0 of a scalar answer equal to it
Hits(a, o) ==
    IF a.t = "list" THEN {j \in DOMAIN a.items : a.items[j] = o}
    ELSE IF a = o THEN {0} ELSE {}
Occurrences(id, k, o) ==
    Cardinality(UNION {{<<i, j>> : j \in Hits(AnswerOf(survey_responses[i], k), o)} :
                       i \in StoredFor(id)})

\* C14: for a single- or multiple-choice question get_survey_results returns
\* (raises nothing) a count for exactly the declared options, the count of an
\* option being the number of its occurrences among the stored responses' answers
\* to that question, each member of a list answer counted separately; undeclared
\* answers or members and absent answers add to no count.
C14_ChoiceTally ==
    \A p \in Procs :
        FinishedResults(p) /\ rd[p] # None =>
            /\ res[p].outcome = "returned"
            /\ \A k \in DOMAIN TheOne(rd[p]).questions :
                  LET q == TheOne(rd[p]).questions[k]
                      counts == res[p].value.questions[k].option_counts
                  IN  IsChoice(q) =>
                        /\ DOMAIN counts = DeclaredOptions(q)
                        /\ \A o \in DeclaredOptions(q) :
                              counts[o] = Occurrences(call[p].id, k, o)

\* options [A, B, C] with answers [[A, B], [B], [C, A]]; options [A, C] with
\* answers [A, C, [A, Z]]
C14_Witness ==
    \E p \in Procs :
        /\ FinishedResults(p) /\ res[p].outcome = "returned" /\ rd[p] # None
        /\ survey_responses = <<ResponseDoc("s1", 1, R1), ResponseDoc("s1", 1, R2),
                                ResponseDoc("s1", 1, R3)>>
        /\ res[p].value.questions[1].option_counts =
              (StrVal("A") :> 2) @@ (StrVal("B") :> 2) @@ (StrVal("C") :> 1)
        /\ res[p].value.questions[3].option_counts =
              (StrVal("A") :> 2) @@ (StrVal("C") :> 1)

\* -------------------------------------------------------------------- C15
\* the stored responses whose answer to question k is present and coercible to an
\* integer, and that integer
Coercible(id, k) ==
    {i \in StoredFor(id) :
        LET a == AnswerOf(survey_responses[i], k) IN a.t # "null" /\ Coerce(a) # None}
ValueOf(i, k) == TheOne(Coerce(AnswerOf(survey_responses[i], k)))
RECURSIVE Total(_, _)
Total(S, k) ==
    IF S = {} THEN 0
    ELSE LET i == CHOOSE x \in S : TRUE IN ValueOf(i, k) + Total(S \ {i}, k)

\* C15: for a scale question get_survey_results returns (raises nothing) the
\* average, minimum and maximum of exactly the answers that are present and
\* coercible to an integer, absent and non-coercible answers being skipped, and a
\* distribution giving each value the number of coerced answers equal to it (the
\* counts sum to the number of coerced answers); with no such answer the entry
\* carries none of the four.
C15_ScaleStatistics ==
    \A p \in Procs :
        FinishedResults(p) /\ rd[p] # None =>
            /\ res[p].outcome = "returned"
            /\ \A k \in DOMAIN TheOne(rd[p]).questions :
                  LET q == TheOne(rd[p]).questions[k]
                      entry == res[p].value.questions[k]
                      C == Coercible(call[p].id, k)
                      values == {ValueOf(i, k) : i \in C}
                  IN  q.type = "scale" =>
                        IF C = {} THEN DOMAIN entry = {"question", "type"}
                        ELSE /\ entry.average = [num |-> Total(C, k), den |-> Cardinality(C)]
                             /\ entry.min \in values /\ \A v \in values : entry.min <= v
                             /\ entry.max \in values /\ \A v \in values : entry.max >= v
                             /\ DOMAIN entry.distribution = values
                             /\ \A v \in values : entry.distribution[v] =
                                   Cardinality({i \in C : ValueOf(i, k) = v})

\* answers [3, 5, "x", null, 7] to the second question: average 15 / 3 = 5, min 3,
\* max 7; answers ["7", 3.5, [3], absent, 3] to the fifth: 7 once and 3 twice
C15_Witness ==
    \E p \in Procs :
        /\ FinishedResults(p) /\ res[p].outcome = "returned" /\ rd[p] # None
        /\ survey_responses = <<ResponseDoc("s1", 1, R1), ResponseDoc("s1", 1, R2),
                                ResponseDoc("s1", 1, R3), ResponseDoc("s1", 1, R4),
                                ResponseDoc("s1", 1, R5)>>
        /\ res[p].value.questions[2].average = [num |-> 15, den |-> 3]
        /\ res[p].value.questions[2].min = 3 /\ res[p].value.questions[2].max = 7
        /\ res[p].value.questions[2].distribution = (3 :> 1) @@ (5 :> 1) @@ (7 :> 1)
        /\ res[p].value.questions[5].distribution = (7 :> 1) @@ (3 :> 2)

\* -------------------------------------------------------------------- C16
\* a step of a get_survey_results call: its start, its reads, its outcome
ResultsCallSteps ==
    \E p \in Procs :
        /\ pc'[p] # pc[p]
        /\ call[p].op = "get_survey_results" \/ call'[p].op = "get_survey_results"

\* C16: get_survey_results is a pure read: for every survey identifier (of a
\* stored survey, of none, or malformed) and every stored state, no step of the
\* call changes the surveys, the survey responses or the users collection.
C16_PureRead ==
    [][ResultsCallSteps =>
          UNCHANGED <<surveys, survey_responses, users, svc_users>>]_vars

C16_Witness ==
    \E p \in Procs :
        /\ FinishedResults(p) /\ res[p].outcome = "returned" /\ rd[p] # None
        /\ res[p].value.total_responses = 2
        /\ Len(survey_responses) = 2 /\ surveys[1].responses_count = 2
        /\ users # {}

\* -------------------------------------------------------------------- C17
\* a store operation of p's call raised: its except clause logged the error
StoreFailed(p) == logline[p] = [level |-> "error", error |-> "StoreError"]

\* C17 as claimed: a store-operation error is re-raised to the caller of the
\* operation in which it occurs, the insert-if-absent writes of the ingestion
\* calls included: a finished call whose store operation failed has raised.
C17_StoreErrorReraised ==
    \A p \in Procs :
        pc[p] = "done" /\ StoreFailed(p) =>
            res[p] = [outcome |-> "raised", error |-> "StoreError"]

\* -------------------------------------------------------------------- C18
\* C18 as claimed: an operation given an unknown user or survey identifier never
\* reports success: record_survey_response for an identifier of no stored survey
\* does not return success, get_survey_results returns the not-found result,
\* add_xp raises, update_user_xp returns None.
C18_NotFoundSurfaced ==
    \A p \in Procs :
        pc[p] = "done" /\ res[p].outcome = "returned" =>
            /\ call[p].op = "record_survey_response" /\ FindSurvey(call[p].id) = None
                  => ~res[p].value.success
            /\ call[p].op = "get_survey_results" /\ rd[p] = None
                  => res[p].value = [error |-> "Pesquisa nao encontrada"]
            /\ call[p].op = "add_xp" => rd[p] # None
            /\ call[p].op = "update_user_xp" /\ rd[p] = None => res[p].value = None

\* -------------------------------------------------------------------- C21
\* what a step of p's record_survey_response call does to the two collections
SubmissionWrites(p) ==
    /\ pc[p] = "rs_insert" /\ pc'[p] = "rs_inc" =>
          /\ survey_responses' =
                Append(survey_responses,
                       ResponseDoc(call[p].id, call[p].user_id, call[p].responses))
          /\ surveys' = surveys
    /\ pc[p] = "rs_inc" /\ pc'[p] # "rs_inc" =>
          /\ survey_responses' = survey_responses
          /\ \E i \in DOMAIN surveys :
                /\ surveys[i].id = call[p].id
                /\ surveys' = [surveys EXCEPT ![i].responses_count = @ + 1]
ResponsesKept ==
    \A i \in DOMAIN survey_responses :
        i \in DOMAIN survey_responses' /\ survey_responses'[i] = survey_responses[i]

\* C21 as claimed: every record_survey_response submission creates exactly one new
\* survey-response record and then increments the responses_count of its survey
\* by exactly 1, repeated submissions of one user included; no step of any
\* operation modifies or deletes a stored response record.
C21_OneRecordOneCount ==
    [][ResponsesKept /\ \A p \in Procs : SubmissionWrites(p)]_vars

\* -------------------------------------------------------------------- C22
\* cumulative totals at which the closed form gives one level more than the loop
DifferingTotals == {240, 400}

\* C22: the closed-form policy of add_xp and the threshold loop of update_user_xp
\* are not equivalent: once a fresh UserModel record and a fresh UserService
\* record have each absorbed the same total of 240 or of 400, the stored levels
\* differ (3 against 2, 4 against 3).
C22_PoliciesDiffer ==
    /\ NoGrantInFlight /\ users # {} /\ svc_users # <<>>
    /\ applied = svcApplied /\ applied \in DifferingTotals
    => /\ Stored(1).level # Profile(1).level
       /\ Stored(1).level = ClosedFormLevel(applied)
       /\ Profile(1).level = LevelUpLoop(svcApplied, 1, 100).level

C22_Witness ==
    /\ NoGrantInFlight /\ users # {} /\ svc_users # <<>>
    /\ applied = 400 /\ svcApplied = 400
    /\ Stored(1).level = 4 /\ Profile(1).level = 3

\* -------------------------------------------------------------------- C24
\* every record of UserService's collection is within its threshold
WithinThreshold ==
    \A i \in 1..Len(svc_users) :
        /\ 0 <= svc_users[i].xp
        /\ svc_users[i].xp < svc_users[i].xp_to_next_level
        /\ svc_users[i].xp_to_next_level >= 100

\* the loop of the call that writes in this step ran at most once per 100
\* experience points it started with
LoopBounded ==
    \A p \in Procs :
        pc[p] = "ux_set" /\ pc'[p] = "ux_ret" =>
            \A i \in 1..Len(svc_users) :
                /\ svc_users'[i].level >= svc_users[i].level
                /\ svc_users'[i].level - TheOne(rd[p]).level
                      <= (TheOne(rd[p]).xp + call[p].amount) \div 100

\* C24: after any sequence of update_user_xp calls with non-negative grants on a
\* record created by UserService.create_user, the stored record has
\* 0 <= xp < xp_to_next_level and xp_to_next_level >= 100, and the level-up loop
\* of every call terminates (it runs at most once per 100 points of the
\* experience it starts with); one grant may raise the level by more than one.
C24_WithinThreshold == WithinThreshold /\ [][WithinThreshold' /\ LoopBounded]_vars

\* a grant of 250 to a fresh record: level 1 to level 3
C24_Witness ==
    \E p \in Procs :
        /\ FinishedUpdateUserXp(p)
        /\ TheOne(rd[p]).level = 1
        /\ TheOne(res[p].value).level = 3 /\ Profile(1).level = 3
        /\ Profile(1).xp = 0 /\ Profile(1).xp_to_next_level = 225

\* -------------------------------------------------------------------- C25
StoredLevelNeverFalls ==
    \A d \in users : \A e \in users' :
        e.telegram_id = d.telegram_id => e.level >= d.level

\* C25 as claimed: under any interleaving of concurrent add_xp calls with
\* non-negative amounts for one user, the user's stored level never decreases
\* from one stored state to the next.
C25_ConcurrentLevelMonotone == [][StoredLevelNeverFalls]_vars

\* -------------------------------------------------------------------- C26
\* C26 as claimed: when get_or_create_user runs concurrently several times for
\* one unseen telegram_id, at most one record with that telegram_id is stored and
\* every call the store answers returns that record without raising.
C26_AllCallsReturnTheUser ==
    /\ \A tid \in StartIds : Cardinality(GetUser(tid)) <= 1
    /\ \A p \in Procs :
          /\ pc[p] = "done" /\ call[p].op = "get_or_create_user"
          /\ ~(res[p].outcome = "raised" /\ res[p].error = "StoreError")
          => /\ res[p].outcome = "returned"
             /\ res[p].value = GetUser(call[p].id)
             /\ res[p].value # None

\* -------------------------------------------------------------------- C27
NoSubmissionInProgress == \A p \in Procs : pc[p] \notin {"rs_insert", "rs_inc"}

\* C27 as claimed: whenever no record_survey_response call is in progress, the
\* responses_count of each stored survey is the number of stored response
\* records that reference it, and every stored response record references a
\* stored survey.
C27_CountMatchesRecords ==
    NoSubmissionInProgress =>
        /\ \A i \in DOMAIN surveys :
              surveys[i].responses_count = Cardinality(StoredFor(surveys[i].id))
        /\ \A j \in DOMAIN survey_responses :
              FindSurvey(survey_responses[j].survey_id) # None

\* -------------------------------------------------------------------- C30
RECURSIVE SumOfCounts(_, _)
SumOfCounts(counts, options) ==
    IF options = {} THEN 0
    ELSE LET o == CHOOSE x \in options : TRUE
         IN  counts[o] + SumOfCounts(counts, options \ {o})

\* C30 as claimed: for every choice question, each option's count reported by
\* get_survey_results is at most total_responses, and for a single-choice
\* question the sum of the option counts is at most total_responses, whatever
\* answers the stored responses contain.
C30_CountsWithinTotal ==
    \A p \in Procs :
        FinishedResults(p) /\ rd[p] # None /\ res[p].outcome = "returned" =>
            \A k \in DOMAIN TheOne(rd[p]).questions :
                LET q == TheOne(rd[p]).questions[k]
                    counts == res[p].value.questions[k].option_counts
                    total == res[p].value.total_responses
                IN  IsChoice(q) =>
                      /\ \A o \in DOMAIN counts : counts[o] <= total
                      /\ q.type = "single_choice" =>
                            SumOfCounts(counts, DOMAIN counts) <= total

\* -------------------------------------------------------------------- C28
\* p's fetch has ended in its except clause on an item of its response
FailedPartway(p) ==
    /\ pc[p] = "done" /\ call[p].op \in FetchOps
    /\ logline[p] \in {[level |-> "error", error |-> e] : e \in {"KeyError", "StoreError"}}

\* what a step does to the posts when p's fetch is at an item or has ended: it
\* stores nothing, or it appends the document of the item the loop is at and
\* moves on; a fetch that has ended stores nothing more
StoresCurrentItemOnly(p) ==
    call[p].op \in FetchOps /\ pc[p] \in {"nf_find", "nf_insert", "done"} =>
        LET col == Collection(call[p])
            colAfter == IF call[p].op = "fetch_player_tweets" THEN player_news' ELSE team_news'
        IN  \/ team_news' = team_news /\ player_news' = player_news
            \/ /\ pc[p] # "done"
               /\ colAfter = Append(col, Doc(call[p], Head(todo[p])))
               /\ todo'[p] = Tail(todo[p])

\* the step in which p's fetch fails: the items from the failing one onwards are
\* left unprocessed and the caller gets a normal return
FailureLeavesRest(p) ==
    FailedPartway(p)' /\ pc[p] # "done" =>
        /\ todo'[p] # <<>>
        /\ res'[p].outcome = "returned"

\* C28: when a fetch fails partway through its response (item k is malformed or
\* its store write fails), the posts stored for the items before k stay stored,
\* no item from k onwards is stored by that call, nothing is rolled back, and
\* the call returns without raising.
C28_PartialBatchKept ==
    [][/\ IsPrefix(team_news, team_news') /\ IsPrefix(player_news, player_news')
       /\ \A p \in Procs : StoresCurrentItemOnly(p) /\ FailureLeavesRest(p)]_vars

\* the response [1, 2]: the post of item 1 is stored, the write for item 2 failed
C28_Witness ==
    \E p \in Procs :
        /\ FailedPartway(p) /\ call[p].op = "fetch_team_tweets"
        /\ logline[p].error = "StoreError" /\ res[p].outcome = "returned"
        /\ todo[p] = <<[id |-> 2, ts |-> 1, text |-> "a"]>>
        /\ team_news = <<[source |-> "twitter", post_id |-> 1, timestamp |-> 1, text |-> "a"]>>

\* -------------------------------------------------------------------- C23
\* no step removes a survey record or makes an inactive survey active again
SurveysOnlyRetire ==
    \A i \in DOMAIN surveys :
        /\ i \in DOMAIN surveys' /\ surveys'[i].id = surveys[i].id
        /\ ~surveys[i].active => ~surveys'[i].active

\* the step of a deactivate_survey that succeeds leaves that survey inactive
DeactivationTakes ==
    \A p \in Procs :
        /\ pc[p] = "idle" /\ pc'[p] = "done" /\ call'[p].op = "deactivate_survey"
        /\ res'[p].outcome = "returned" /\ res'[p].value.success
        => \E i \in DOMAIN surveys' : surveys'[i].id = call'[p].id /\ ~surveys'[i].active

\* what get_active_surveys returns: stored surveys, each active and with a
\* minimum level of at most the given user level
OnlyActiveReturned ==
    \A p \in Procs :
        /\ pc[p] = "done" /\ call[p].op = "get_active_surveys"
        /\ res[p].outcome = "returned"
        => \A k \in DOMAIN res[p].value :
              /\ \E i \in DOMAIN surveys : surveys[i] = res[p].value[k]
              /\ res[p].value[k].active
              /\ res[p].value[k].min_level <= call[p].user_level

\* C23: surveys are only soft-deactivated: no step removes a survey record, a
\* survey on which deactivate_survey succeeded is inactive and an inactive survey
\* stays inactive in every later state, and get_active_surveys returns only
\* stored surveys that are active and whose minimum level is at most the given
\* user level (so never a deactivated one).
C23_SoftDeactivation ==
    []OnlyActiveReturned /\ [][SurveysOnlyRetire /\ DeactivationTakes]_vars

\* two surveys stored, one deactivated: the call for level 2 returns the other
C23_Witness ==
    \E p \in Procs :
        /\ pc[p] = "done" /\ call[p].op = "get_active_surveys"
        /\ call[p].user_level = 2 /\ res[p].outcome = "returned"
        /\ Len(surveys) = 2 /\ ~surveys[1].active /\ surveys[2].active
        /\ surveys[1].responses_count = 1
        /\ res[p].value = <<surveys[2]>>

\* -------------------------------------------------------------------- C29
\* the callback data of the back buttons a screen offers
BackTags(s) == {s.buttons[i].callback_data : i \in {j \in DOMAIN s.buttons : s.buttons[j].back}}

\* pressing back buttons from screen s shows the main menu within n presses,
\* whichever screen each press shows
RECURSIVE BackReachesMain(_, _)
BackReachesMain(s, n) ==
    \/ s = MainScreen
    \/ /\ n > 0
       /\ BackTags(s) # {}
       /\ \A tag \in BackTags(s) : \A next \in MenuScreens(tag) : BackReachesMain(next, n - 1)

\* the screen offers a back button and back presses lead to the main menu
OffersWayBack(s) == BackTags(s) # {} /\ BackReachesMain(s, 3)

\* the tags the chain of comparisons in menu_callback and the player list name
RecognizedTags ==
    {HomeTag, NewsTag, TeamNewsTag, PlayerNewsTag}
        \cup {PlayerTag(MenuPlayers[i]) : i \in DOMAIN MenuPlayers}

\* a press of cmd that menu_callback answered without raising
Pressed(cmd) == MenuCallback(cmd, "ok")

\* C29 as stated: every screen menu_callback shows (the news submenu, the team
\* news, the player list, a player's news, the fallback) offers a back button
\* from which back presses reach the main menu within three presses, and every
\* unrecognized menu_ or player_ tag is answered with the under-construction
\* fallback.
C29_FallbackForEveryUnrecognizedTag ==
    [][\A cmd \in Tags \ {HomeTag} :
          Pressed(cmd) =>
              /\ OffersWayBack(screen')
              /\ cmd \notin RecognizedTags => screen' = Fallback]_vars

\* C29 amended: every screen menu_callback shows other than the main menu
\* offers a back button from which back presses reach the main menu within
\* three presses; an unrecognized menu_ tag is answered with the
\* under-construction fallback, while every player_ tag, also one that names
\* no player of the list, is answered with the news of the player named by the
\* part after the first underscore, with a back button to the player list.
C29_BackReachesMain ==
    /\ [](screen \notin {NoScreen, MainScreen} => OffersWayBack(screen))
    /\ [][\A cmd \in Tags \ {HomeTag} :
             Pressed(cmd) =>
                 /\ OffersWayBack(screen')
                 /\ (cmd \notin RecognizedTags /\ Head(cmd) = "menu") => screen' = Fallback
                 /\ Head(cmd) = "player" =>
                        /\ screen'.text = cmd[2]
                        /\ BackTags(screen') = {PlayerNewsTag}]_vars

\* the chat shows the news of a name outside the player list, asked for by a
\* player_ tag: not the fallback, and three back presses away from the main menu
C29_Witness ==
    /\ screen.text = "guest"
    /\ screen # Fallback
    /\ BackTags(screen) = {PlayerNewsTag}
    /\ BackReachesMain(screen, 3) /\ ~BackReachesMain(screen, 2)
====
